---- MODULE Spec2Model ----
(***************************************************************************)
(* json-view: the document tree and its view-state algorithms.             *)
(*                                                                         *)
(* The parsed JSON documents are encoded as a sequence jsonDocs: position  *)
(* p of the sequence is the p-th JSON value in the order the documents are *)
(* loaded and read, jsonDocs[p] is the position of the object or array     *)
(* that holds it (0 for the top value of a document), and the members of a *)
(* container are its positions in increasing order (the iteration order of *)
(* json::begin()..end()).                                                  *)
(*                                                                         *)
(* A Node is identified by the position of the JSON value it points to     *)
(* (Node::value); buildTree makes exactly one Node per JSON value.         *)
(***************************************************************************)
EXTENDS Integers, Sequences, FiniteSets, TLC

\* Largest number of JSON values over all loaded documents.
MaxNodes == 5
\* Largest targetLevel handed to expandToLevel.
MaxLevel == 5
\* Largest number of JSON values of the documents that are searched.
MaxSearchNodes == 3
\* Longest search term.
MaxTermLen == 2

VARIABLES
    jsonDocs,     \* the parsed documents (std::deque<json> jsonDocs)
    jsonVals,     \* what each JSON value of jsonDocs holds
    roots,        \* std::vector<std::unique_ptr<Node>> roots, in load order
    parent,       \* Node::parent, 0 is nullptr
    children,     \* Node::children
    key,          \* Node::key
    isDummyRoot,  \* Node::isDummyRoot
    isLastChild,  \* Node::isLastChild
    expanded,     \* Node::expanded
    visible,      \* std::vector<const Node *> visible of the main loop
    out,          \* the out parameter of the last call that has one
    call,         \* the last call made on the tree and the flags before it
    frontEnd,     \* the program and where it is: "main" (json-view loading its
                  \* files), "viewer" (json-view in its key loop), "app"
                  \* (json-view-app in its event loop), "ended" (terminated)
    liveDocs,     \* the top values of the parsed documents that still exist
    search,       \* SearchState search
    selected,     \* the selected line: selected of main, foc of the app's outline
    nodeMap,      \* nodeMap of the app: the nodes that have an outline node, each
                  \* with the expanded flag of that outline node
    last          \* the last command given and the state it was given in

vars == <<jsonDocs, jsonVals, roots, parent, children, key, isDummyRoot, isLastChild,
          expanded, visible, out, call, frontEnd, liveDocs, search, selected, nodeMap,
          last>>

Nodes == DOMAIN parent

Range(s) == {s[i] : i \in DOMAIN s}

Min(a, b) == IF a < b THEN a ELSE b

(***************************************************************************)
(* Strings are sequences of characters. The letters with an upper case in  *)
(* the model are a and b.                                                  *)
(***************************************************************************)

\* ::tolower on one character.
LowerChar(c) == CASE c = "A" -> "a" [] c = "B" -> "b" [] OTHER -> c

\* std::transform(s.begin(), s.end(), s.begin(), ::tolower).
ToLower(s) == [i \in 1..Len(s) |-> LowerChar(s[i])]

\* s.find(t) != std::string::npos.
Contains(s, t) ==
    \E i \in 0..(Len(s) - Len(t)) : SubSeq(s, i + 1, i + Len(t)) = t

DigitChars == <<"0", "1", "2", "3", "4", "5", "6", "7", "8", "9">>

RECURSIVE DecimalString(_)
\* std::to_string(i), and json::dump() of a natural number.
DecimalString(i) ==
    IF i < 10
        THEN <<DigitChars[i + 1]>>
        ELSE DecimalString(i \div 10) \o <<DigitChars[(i % 10) + 1]>>

RECURSIVE StringsUpTo(_, _)
\* The strings over alphabet of length at most n.
StringsUpTo(alphabet, n) ==
    IF n = 0
        THEN {<<>>}
        ELSE LET shorter == StringsUpTo(alphabet, n - 1)
             IN shorter \cup {<<c>> \o s : c \in alphabet, s \in shorter}

(***************************************************************************)
(* The JSON documents.                                                     *)
(***************************************************************************)

RECURSIVE Enclosing(_, _)
\* The containers around position p, innermost first.
Enclosing(up, p) == IF up[p] = 0 THEN {} ELSE {up[p]} \cup Enclosing(up, up[p])

\* All documents of at most MaxNodes JSON values together: a value follows
\* the one read before it as its first member, as the next member of one of
\* the containers around it, or as the top value of the next document.
DocShapes ==
    UNION {{up \in [1..n -> 0..(n - 1)] :
               \A p \in 1..n :
                   /\ up[p] < p
                   /\ p > 1 => up[p] \in {0, p - 1} \cup Enclosing(up, p - 1)}
           : n \in 1..MaxNodes}

\* {"a": 1, "b": [2, 3]}: 1 the object, 2 = a, 3 = b, 4 = b[0], 5 = b[1].
ExampleDoc == <<0, 1, 1, 3, 3>>

\* The members of container j in iteration order (for j = 0: the documents).
Items(up, j) == SelectSeq([p \in 1..Len(up) |-> p], LAMBDA p : up[p] = j)

\* The index of value p among the members of the container that holds it.
ItemIndex(up, p) == Cardinality({q \in 1..(p - 1) : up[q] = up[p]})

\* A JSON value: its type and, by type, the characters of a string, the
\* truth of a boolean or the number; name is the member name of a member of
\* an object and, for the top value of a document, the name of its file; at
\* is the place the value is written at in the text of the file, among the
\* members of the container that holds it, from 1.
JsonValue(type, text, flag, num) ==
    [type |-> type, text |-> text, flag |-> flag, num |-> num, name |-> <<>>, at |-> 0]

\* The values without members the sample documents are made of.
LeafSamples ==
    << JsonValue("string", <<"a", "B">>, FALSE, 0),
       JsonValue("number", <<>>, FALSE, 1),
       JsonValue("boolean", <<>>, TRUE, 0),
       JsonValue("null", <<>>, FALSE, 0),
       JsonValue("object", <<>>, FALSE, 0),
       JsonValue("array", <<>>, FALSE, 0),
       JsonValue("string", <<"l">>, FALSE, 0),
       JsonValue("boolean", <<>>, FALSE, 0) >>

\* Member names, in the order an object iterates over them (std::map order).
MemberNames ==
    << <<"A">>, <<"A", "l">>, <<"a">>, <<"a", "1">>, <<"l">>, <<"l", "B">> >>

SampleVariants == 0..(Len(LeafSamples) - 1)

\* The sample document of shape up and variant v: what the value at each
\* position holds. Values with members are objects and arrays in turn, the
\* others run through LeafSamples; the k-th document is file A<k> or l<k>.
\* The file of an even variant lists the members of an object from the
\* greatest name down, the file of an odd variant from the least name up.
SampleVals(up, v) ==
    [p \in 1..Len(up) |->
        LET IsObject(q) == (q + v) % 2 = 0
            held == IF Items(up, p) = <<>>
                        THEN LeafSamples[((p + v) % Len(LeafSamples)) + 1]
                        ELSE JsonValue(IF IsObject(p) THEN "object" ELSE "array",
                                       <<>>, FALSE, 0)
            k == ItemIndex(up, p) + 1
        IN [held EXCEPT !.name =
                IF up[p] = 0
                    THEN <<IF v % 2 = 0 THEN "A" ELSE "l">> \o DecimalString(k)
                    ELSE IF IsObject(up[p])
                             THEN MemberNames[k + (v % 2)]
                             ELSE <<>>,
                        !.at =
                IF up[p] # 0 /\ IsObject(up[p]) /\ v % 2 = 0
                    THEN Len(Items(up, up[p])) - k + 1
                    ELSE k]]

\* The code of a character (ASCII), of those the sample documents use.
CharCode(c) ==
    CASE c \in Range(DigitChars) ->
             47 + CHOOSE i \in DOMAIN DigitChars : DigitChars[i] = c
      [] c = "A" -> 65
      [] c = "B" -> 66
      [] c = "[" -> 91
      [] c = "]" -> 93
      [] c = "a" -> 97
      [] c = "b" -> 98
      [] c = "l" -> 108

\* s < t as std::less<std::string> compares: by the first character that
\* differs, a proper prefix before the longer string.
StringLess(s, t) ==
    \/ Len(s) < Len(t) /\ SubSeq(t, 1, Len(s)) = s
    \/ \E i \in 1..Min(Len(s), Len(t)) :
           /\ CharCode(s[i]) < CharCode(t[i])
           /\ SubSeq(s, 1, i - 1) = SubSeq(t, 1, i - 1)

\* The members of container j in the order the text of the file lists them.
WrittenItems(up, vals, j) ==
    LET ps == Range(Items(up, j))
    IN [i \in 1..Cardinality(ps) |-> CHOOSE p \in ps : vals[p].at = i]

\* The members of container j as the parsed json iterates over them: the
\* members of an object are kept in a std::map, by name; the elements of an
\* array are kept as they are written.
JsonItems(up, vals, j) ==
    LET written == WrittenItems(up, vals, j)
    IN IF vals[j].type = "object"
           THEN [i \in DOMAIN written |->
                    CHOOSE p \in Range(written) :
                        Cardinality({q \in Range(written) :
                                        StringLess(vals[q].name, vals[p].name)}) = i - 1]
           ELSE written

\* The JSON value at position j of the parsed documents: what it holds and,
\* for an object or an array, its members in the order it iterates over
\* them, an object's members with their names.
RECURSIVE Json(_, _, _)
Json(up, vals, j) ==
    LET items == JsonItems(up, vals, j)
    IN [type |-> vals[j].type, text |-> vals[j].text, flag |-> vals[j].flag,
        num |-> vals[j].num,
        members |-> [i \in DOMAIN items |->
                        [name |-> IF vals[j].type = "object"
                                      THEN vals[items[i]].name
                                      ELSE <<>>,
                         value |-> Json(up, vals, items[i])]]]

(***************************************************************************)
(* buildTree                                                               *)
(***************************************************************************)

RECURSIVE BuildTree(_, _, _, _)
RECURSIVE BuildChildren(_, _, _)

\* A marking loop that flags the first child of the list.
MarkFirstChild(kids, heap) ==
    [n \in DOMAIN heap |->
        IF n \in Range(kids)
            THEN [heap[n] EXCEPT !.isLastChild = (n = kids[1])]
            ELSE heap[n]]

\* The last loop of buildTree, over the children kids just built in heap:
\* children[i]->isLastChild = (i == children.size() - 1).
MarkLastChild(kids, heap) ==
    [n \in DOMAIN heap |->
        IF n \in Range(kids)
            THEN [heap[n] EXCEPT !.isLastChild = (n = kids[Len(kids)])]
            ELSE heap[n]]

\* The loops of buildTree over the members of an object or array: one child
\* per member, each built with parent = node and dummy = false.
BuildChildren(up, items, node) ==
    IF items = <<>>
        THEN <<>>
        ELSE BuildTree(up, Head(items), node, FALSE) @@ BuildChildren(up, Tail(items), node)

RECURSIVE BuildTreeAllOpen(_, _, _, _)
RECURSIVE BuildChildrenAllOpen(_, _, _)

\* A buildTree that makes every node expanded.
BuildChildrenAllOpen(up, items, node) ==
    IF items = <<>>
        THEN <<>>
        ELSE BuildTreeAllOpen(up, Head(items), node, FALSE)
             @@ BuildChildrenAllOpen(up, Tail(items), node)

BuildTreeAllOpen(up, j, par, dummy) ==
    (j :> [value       |-> j,
           parent      |-> par,
           children    |-> Items(up, j),
           isDummyRoot |-> dummy,
           isLastChild |-> FALSE,
           expanded    |-> TRUE])
    @@ MarkLastChild(Items(up, j), BuildChildrenAllOpen(up, Items(up, j), j))

\* buildTree(j, key, parent, dummy): the node for JSON value j and, below it,
\* the nodes of its members. The result maps each node made to its fields.
BuildTree(up, j, par, dummy) ==
    (j :> [value       |-> j,
           parent      |-> par,
           children    |-> Items(up, j),
           isDummyRoot |-> dummy,
           isLastChild |-> FALSE,
           expanded    |-> dummy])
    @@ MarkLastChild(Items(up, j), BuildChildren(up, Items(up, j), j))

RECURSIVE LoadDocs(_, _)
\* The load loop of main: one buildTree(ptr, filename, nullptr, true) per
\* parsed document.
LoadDocs(up, docs) ==
    IF docs = <<>>
        THEN <<>>
        ELSE BuildTree(up, Head(docs), 0, TRUE) @@ LoadDocs(up, Tail(docs))

\* The loop of main after the load loop, over the roots rs:
\* roots[i]->isLastChild = (i == roots.size() - 1).
MarkLastRoot(rs, flags) ==
    [n \in DOMAIN flags |-> IF n \in Range(rs) THEN n = rs[Len(rs)] ELSE flags[n]]

\* A buildTree that numbers the elements of an array from 1.
NodeKeyFromOne(up, vals, j) ==
    IF up[j] = 0
        THEN vals[j].name
        ELSE IF vals[up[j]].type = "object"
                 THEN vals[j].name
                 ELSE <<"[">> \o DecimalString(ItemIndex(up, j) + 1) \o <<"]">>

\* The key buildTree gives the node of value j: the member name under an
\* object, "[" + std::to_string(idx) + "]" under an array, and for a root the
\* key handed in by the load loop, the file name.
NodeKey(up, vals, j) ==
    IF up[j] = 0
        THEN vals[j].name
        ELSE IF vals[up[j]].type = "object"
                 THEN vals[j].name
                 ELSE <<"[">> \o DecimalString(ItemIndex(up, j)) \o <<"]">>

(***************************************************************************)
(* collectVisible                                                          *)
(***************************************************************************)

RECURSIVE CollectVisible(_, _)
RECURSIVE CollectVisibleChildren(_, _)
RECURSIVE CollectVisibleAlways(_, _)
RECURSIVE CollectVisibleAlwaysChildren(_, _)
RECURSIVE CollectVisiblePostOrder(_, _)
RECURSIVE CollectVisiblePostOrderChildren(_, _)

\* The loop of collectVisible over node->children.
CollectVisibleChildren(kids, e) ==
    IF kids = <<>>
        THEN <<>>
        ELSE CollectVisible(Head(kids), e) \o CollectVisibleChildren(Tail(kids), e)

\* A collectVisible that does not test node->expanded.
CollectVisibleAlwaysChildren(kids, e) ==
    IF kids = <<>>
        THEN <<>>
        ELSE CollectVisibleAlways(Head(kids), e) \o CollectVisibleAlwaysChildren(Tail(kids), e)

CollectVisibleAlways(node, e) ==
    <<node>> \o CollectVisibleAlwaysChildren(children[node], e)

\* A collectVisible that pushes the node after its children.
CollectVisiblePostOrderChildren(kids, e) ==
    IF kids = <<>>
        THEN <<>>
        ELSE CollectVisiblePostOrder(Head(kids), e)
                 \o CollectVisiblePostOrderChildren(Tail(kids), e)

CollectVisiblePostOrder(node, e) ==
    (IF e[node] THEN CollectVisiblePostOrderChildren(children[node], e) ELSE <<>>)
        \o <<node>>

\* collectVisible(node, out): what the call appends to out, under flags e.
CollectVisible(node, e) ==
    <<node>> \o (IF e[node] THEN CollectVisibleChildren(children[node], e) ELSE <<>>)

RECURSIVE CollectRoots(_, _)
\* The top of the main loop: visible.clear(), then collectVisible per root.
CollectRoots(rs, e) ==
    IF rs = <<>>
        THEN <<>>
        ELSE CollectVisible(Head(rs), e) \o CollectRoots(Tail(rs), e)

(***************************************************************************)
(* expandAll, collapseAll                                                  *)
(***************************************************************************)

RECURSIVE ExpandAll(_, _)
RECURSIVE ExpandAllChildren(_, _)
RECURSIVE CollapseAll(_, _, _)
RECURSIVE CollapseAllChildren(_, _)

\* The loop of expandAll over node->children.
ExpandAllChildren(kids, e) ==
    IF kids = <<>>
        THEN e
        ELSE ExpandAllChildren(Tail(kids), ExpandAll(Head(kids), e))

\* An expandAll that opens the node and its children but goes no deeper.
ExpandAllOneLevel(node, e) ==
    [n \in DOMAIN e |-> IF n = node \/ n \in Range(children[node]) THEN TRUE ELSE e[n]]

\* expandAll(node): the flags after the call, from flags e.
ExpandAll(node, e) ==
    ExpandAllChildren(children[node], [e EXCEPT ![node] = TRUE])

\* The loop of collapseAll over node->children: collapseAll(child, false).
CollapseAllChildren(kids, e) ==
    IF kids = <<>>
        THEN e
        ELSE CollapseAllChildren(Tail(kids), CollapseAll(Head(kids), FALSE, e))

\* A collapseAll that never looks at keepRoot.
CollapseAllIgnoreKeepRoot(node, keepRoot, e) ==
    CollapseAllChildren(children[node], [e EXCEPT ![node] = FALSE])

\* collapseAll(node, keepRoot): the flags after the call, from flags e.
CollapseAll(node, keepRoot, e) ==
    CollapseAllChildren(children[node],
        IF ~isDummyRoot[node] \/ ~keepRoot THEN [e EXCEPT ![node] = FALSE] ELSE e)

(***************************************************************************)
(* expandToLevel                                                           *)
(***************************************************************************)

RECURSIVE ExpandToLevel(_, _, _, _)
RECURSIVE ExpandToLevelChildren(_, _, _, _)
RECURSIVE ExpandToLevelInclusive(_, _, _, _)
RECURSIVE ExpandToLevelInclusiveChildren(_, _, _, _)
RECURSIVE ExpandToLevelShallowCut(_, _, _, _)
RECURSIVE ExpandToLevelShallowCutChildren(_, _, _, _)
RECURSIVE ExpandToLevelNoZero(_, _, _, _)
RECURSIVE ExpandToLevelNoZeroChildren(_, _, _, _)

\* The loops of expandToLevel that recurse: expandToLevel(child, targetLevel, level).
ExpandToLevelChildren(kids, targetLevel, level, e) ==
    IF kids = <<>>
        THEN e
        ELSE ExpandToLevelChildren(Tail(kids), targetLevel, level,
                 ExpandToLevel(Head(kids), targetLevel, level, e))

\* An expandToLevel whose depth test is currentLevel <= targetLevel.
ExpandToLevelInclusiveChildren(kids, targetLevel, level, e) ==
    IF kids = <<>>
        THEN e
        ELSE ExpandToLevelInclusiveChildren(Tail(kids), targetLevel, level,
                 ExpandToLevelInclusive(Head(kids), targetLevel, level, e))

ExpandToLevelInclusive(node, targetLevel, currentLevel, e) ==
    IF targetLevel = 0
        THEN CollapseAllChildren(children[node], [e EXCEPT ![node] = FALSE])
    ELSE IF isDummyRoot[node]
        THEN ExpandToLevelInclusiveChildren(children[node], targetLevel, 1,
                 [e EXCEPT ![node] = TRUE])
    ELSE IF currentLevel <= targetLevel
        THEN ExpandToLevelInclusiveChildren(children[node], targetLevel, currentLevel + 1,
                 [e EXCEPT ![node] = TRUE])
    ELSE CollapseAllChildren(children[node], [e EXCEPT ![node] = FALSE])

\* An expandToLevel that collapses the node at the cut line but not the nodes
\* below it.
ExpandToLevelShallowCutChildren(kids, targetLevel, level, e) ==
    IF kids = <<>>
        THEN e
        ELSE ExpandToLevelShallowCutChildren(Tail(kids), targetLevel, level,
                 ExpandToLevelShallowCut(Head(kids), targetLevel, level, e))

ExpandToLevelShallowCut(node, targetLevel, currentLevel, e) ==
    IF targetLevel = 0
        THEN CollapseAllChildren(children[node], [e EXCEPT ![node] = FALSE])
    ELSE IF isDummyRoot[node]
        THEN ExpandToLevelShallowCutChildren(children[node], targetLevel, 1,
                 [e EXCEPT ![node] = TRUE])
    ELSE IF currentLevel < targetLevel
        THEN ExpandToLevelShallowCutChildren(children[node], targetLevel, currentLevel + 1,
                 [e EXCEPT ![node] = TRUE])
    ELSE [e EXCEPT ![node] = FALSE]

\* An expandToLevel without the special case for targetLevel = 0.
ExpandToLevelNoZeroChildren(kids, targetLevel, level, e) ==
    IF kids = <<>>
        THEN e
        ELSE ExpandToLevelNoZeroChildren(Tail(kids), targetLevel, level,
                 ExpandToLevelNoZero(Head(kids), targetLevel, level, e))

ExpandToLevelNoZero(node, targetLevel, currentLevel, e) ==
    IF isDummyRoot[node]
        THEN ExpandToLevelNoZeroChildren(children[node], targetLevel, 1,
                 [e EXCEPT ![node] = TRUE])
    ELSE IF currentLevel < targetLevel
        THEN ExpandToLevelNoZeroChildren(children[node], targetLevel, currentLevel + 1,
                 [e EXCEPT ![node] = TRUE])
    ELSE CollapseAllChildren(children[node], [e EXCEPT ![node] = FALSE])

\* expandToLevel(node, targetLevel, currentLevel): the flags after the call.
ExpandToLevel(node, targetLevel, currentLevel, e) ==
    IF targetLevel = 0
        THEN CollapseAllChildren(children[node], [e EXCEPT ![node] = FALSE])
    ELSE IF isDummyRoot[node]
        THEN ExpandToLevelChildren(children[node], targetLevel, 1,
                 [e EXCEPT ![node] = TRUE])
    ELSE IF currentLevel < targetLevel
        THEN ExpandToLevelChildren(children[node], targetLevel, currentLevel + 1,
                 [e EXCEPT ![node] = TRUE])
    ELSE CollapseAllChildren(children[node], [e EXCEPT ![node] = FALSE])

(***************************************************************************)
(* expandPath                                                              *)
(***************************************************************************)

RECURSIVE ExpandPathFrom(_, _)
\* The while loop of expandPath from cur upwards; 0 is the null pointer.
ExpandPathFrom(cur, e) ==
    IF cur = 0
        THEN e
        ELSE ExpandPathFrom(parent[cur], [e EXCEPT ![cur] = TRUE])

\* An expandPath that starts at the node itself (cur = node).
ExpandPathWithSelf(node, e) ==
    ExpandPathFrom(node, e)

\* An expandPath that opens the parent only.
ExpandPathParentOnly(node, e) ==
    IF parent[node] = 0 THEN e ELSE [e EXCEPT ![parent[node]] = TRUE]

\* expandPath(node): the flags after the call, from flags e.
ExpandPath(node, e) ==
    ExpandPathFrom(parent[node], e)

(***************************************************************************)
(* searchTree                                                              *)
(***************************************************************************)

\* The string searchTree compares a value by: val, before it is lowercased.
ValueString(v) ==
    CASE v.type = "string"  -> v.text
      [] v.type = "boolean" -> IF v.flag THEN <<"t", "r", "u", "e">>
                                         ELSE <<"f", "a", "l", "s", "e">>
      [] v.type = "number"  -> DecimalString(v.num)
      [] v.type = "null"    -> <<"n", "u", "l", "l">>
      [] v.type = "object"  -> <<"d", "i", "c", "t", "i", "o", "n", "a", "r", "y">>
      [] v.type = "array"   -> <<"l", "i", "s", "t">>

\* keyLower.find(term) != npos, and valLower.find(term) != npos.
KeyHit(node, term) == Contains(ToLower(key[node]), term)
ValueHit(node, term) == Contains(ToLower(ValueString(jsonVals[node])), term)

RECURSIVE SearchTree(_, _, _, _)
RECURSIVE SearchTreeChildren(_, _, _, _)
RECURSIVE SearchTreeNoLower(_, _, _, _)
RECURSIVE SearchTreeNoLowerChildren(_, _, _, _)
RECURSIVE SearchTreeExpandedOnly(_, _, _, _)
RECURSIVE SearchTreeExpandedOnlyChildren(_, _, _, _)
RECURSIVE ViewerSearchTree(_, _, _, _)
RECURSIVE ViewerSearchTreeChildren(_, _, _, _)

\* The loop of searchTree over node->children.
SearchTreeChildren(kids, term, searchKeys, searchValues) ==
    IF kids = <<>>
        THEN <<>>
        ELSE SearchTree(Head(kids), term, searchKeys, searchValues)
             \o SearchTreeChildren(Tail(kids), term, searchKeys, searchValues)

\* A searchTree that compares the key and the value as they are written.
SearchTreeNoLowerChildren(kids, term, searchKeys, searchValues) ==
    IF kids = <<>>
        THEN <<>>
        ELSE SearchTreeNoLower(Head(kids), term, searchKeys, searchValues)
             \o SearchTreeNoLowerChildren(Tail(kids), term, searchKeys, searchValues)

SearchTreeNoLower(node, term, searchKeys, searchValues) ==
    LET matched ==
            /\ term # <<>>
            /\ \/ searchKeys /\ Contains(key[node], term)
               \/ searchValues /\ Contains(ValueString(jsonVals[node]), term)
    IN (IF matched THEN <<node>> ELSE <<>>)
       \o SearchTreeNoLowerChildren(children[node], term, searchKeys, searchValues)

\* A searchTree that goes below expanded nodes only.
SearchTreeExpandedOnlyChildren(kids, term, searchKeys, searchValues) ==
    IF kids = <<>>
        THEN <<>>
        ELSE SearchTreeExpandedOnly(Head(kids), term, searchKeys, searchValues)
             \o SearchTreeExpandedOnlyChildren(Tail(kids), term, searchKeys, searchValues)

SearchTreeExpandedOnly(node, term, searchKeys, searchValues) ==
    LET matched ==
            /\ term # <<>>
            /\ \/ searchKeys /\ KeyHit(node, term)
               \/ searchValues /\ ValueHit(node, term)
    IN (IF matched THEN <<node>> ELSE <<>>)
       \o (IF expanded[node]
               THEN SearchTreeExpandedOnlyChildren(children[node], term,
                                                   searchKeys, searchValues)
               ELSE <<>>)

\* searchTree(node, term, searchKeys, searchValues, out) of the core: what
\* the call appends to out. The term is compared as it is handed in.
SearchTree(node, term, searchKeys, searchValues) ==
    LET matched ==
            /\ term # <<>>
            /\ \/ searchKeys /\ KeyHit(node, term)
               \/ searchValues /\ ValueHit(node, term)
    IN (IF matched THEN <<node>> ELSE <<>>)
       \o SearchTreeChildren(children[node], term, searchKeys, searchValues)

RECURSIVE ViewerSearchTreeAnyTerm(_, _, _, _)
RECURSIVE ViewerSearchTreeAnyTermChildren(_, _, _, _)

\* A searchTree of the viewer that does not test term.empty().
ViewerSearchTreeAnyTermChildren(kids, term, searchKeys, searchValues) ==
    IF kids = <<>>
        THEN <<>>
        ELSE ViewerSearchTreeAnyTerm(Head(kids), term, searchKeys, searchValues)
             \o ViewerSearchTreeAnyTermChildren(Tail(kids), term, searchKeys, searchValues)

ViewerSearchTreeAnyTerm(node, term, searchKeys, searchValues) ==
    (IF searchKeys /\ KeyHit(node, term) THEN <<node>> ELSE <<>>)
    \o (IF ~searchKeys /\ searchValues /\ ValueHit(node, term) THEN <<node>> ELSE <<>>)
    \o ViewerSearchTreeAnyTermChildren(children[node], term, searchKeys, searchValues)

\* The loop of the viewer's own searchTree over node->children.
ViewerSearchTreeChildren(kids, term, searchKeys, searchValues) ==
    IF kids = <<>>
        THEN <<>>
        ELSE ViewerSearchTree(Head(kids), term, searchKeys, searchValues)
             \o ViewerSearchTreeChildren(Tail(kids), term, searchKeys, searchValues)

\* The static searchTree of json-view.cpp: one push for a key match, and the
\* value is looked at only when keys are not searched.
ViewerSearchTree(node, term, searchKeys, searchValues) ==
    (IF term # <<>> /\ searchKeys /\ KeyHit(node, term) THEN <<node>> ELSE <<>>)
    \o (IF term # <<>> /\ ~searchKeys /\ searchValues /\ ValueHit(node, term)
            THEN <<node>> ELSE <<>>)
    \o ViewerSearchTreeChildren(children[node], term, searchKeys, searchValues)

RECURSIVE ViewerSearchRoots(_, _, _, _)
\* for (auto &r : roots) searchTree(r.get(), lower, ...) of the viewer: the
\* matches of all documents, in load order.
ViewerSearchRoots(rs, term, searchKeys, searchValues) ==
    IF rs = <<>>
        THEN <<>>
        ELSE ViewerSearchTree(Head(rs), term, searchKeys, searchValues)
             \o ViewerSearchRoots(Tail(rs), term, searchKeys, searchValues)

(***************************************************************************)
(* The tree under its callers: the documents are loaded and the trees      *)
(* built; then the tree functions are called, on any node, in any order.   *)
(* Each call runs to its end in one step, the visible list being rebuilt   *)
(* after it as at the top of the main loop; call keeps the call and the    *)
(* flags it started from until the caller goes on to the next one.         *)
(***************************************************************************)

NoCall == [op |-> "none", node |-> 0, level |-> 0, keepRoot |-> FALSE, pre |-> <<>>]

\* SearchState(): the search state as constructed.
EmptySearch ==
    [term |-> <<>>, searchKeys |-> TRUE, searchValues |-> FALSE, matches |-> <<>>,
     currentIndex |-> 0]

\* No search command has been given since the user last looked.
NoLast ==
    [cmd |-> "none", query |-> <<>>, pre |-> <<>>, index |-> 0, focus |-> 0,
     run |-> 0, start |-> 0, startFocus |-> 0, was |-> EmptySearch,
     after |-> "none", origin |-> 0]

\* The state of a front end's event loop.
FrontEndState == <<frontEnd, liveDocs, search, selected, nodeMap, last>>

\* The tree functions are called as by the viewer, before any search.
NoFrontEnd ==
    /\ frontEnd = "viewer"
    /\ liveDocs = Range(Items(jsonDocs, 0))
    /\ search = EmptySearch
    /\ selected = 0
    /\ nodeMap = <<>>
    /\ last = NoLast

Init ==
    /\ jsonDocs \in DocShapes
    /\ jsonVals = SampleVals(jsonDocs, 0)
    /\ roots = Items(jsonDocs, 0)
    /\ LET heap == LoadDocs(jsonDocs, Items(jsonDocs, 0))
       IN /\ parent = [n \in DOMAIN heap |-> heap[n].parent]
          /\ children = [n \in DOMAIN heap |-> heap[n].children]
          /\ key = [n \in DOMAIN heap |-> NodeKey(jsonDocs, jsonVals, n)]
          /\ isDummyRoot = [n \in DOMAIN heap |-> heap[n].isDummyRoot]
          /\ isLastChild = MarkLastRoot(Items(jsonDocs, 0),
                                        [n \in DOMAIN heap |-> heap[n].isLastChild])
          /\ expanded = [n \in DOMAIN heap |-> heap[n].expanded]
          /\ visible = CollectRoots(Items(jsonDocs, 0),
                                    [n \in DOMAIN heap |-> heap[n].expanded])
    /\ out = <<>>
    /\ call = NoCall
    /\ NoFrontEnd

\* What the tree functions leave alone: the fields of the tree none of them
\* writes, and the state of the event loop.
Shape ==
    <<jsonDocs, jsonVals, roots, parent, children, key, isDummyRoot, isLastChild,
      FrontEndState>>

DoExpandAll(node) ==
    /\ call = NoCall
    /\ expanded' = ExpandAll(node, expanded)
    /\ visible' = CollectRoots(roots, expanded')
    /\ call' = [op |-> "expandAll", node |-> node, level |-> 0, keepRoot |-> FALSE,
                pre |-> expanded]
    /\ UNCHANGED <<out, Shape>>

DoCollapseAll(node, keepRoot) ==
    /\ call = NoCall
    /\ expanded' = CollapseAll(node, keepRoot, expanded)
    /\ visible' = CollectRoots(roots, expanded')
    /\ call' = [op |-> "collapseAll", node |-> node, level |-> 0, keepRoot |-> keepRoot,
                pre |-> expanded]
    /\ UNCHANGED <<out, Shape>>

DoExpandToLevel(root, level) ==
    /\ call = NoCall
    /\ expanded' = ExpandToLevel(root, level, 0, expanded)
    /\ visible' = CollectRoots(roots, expanded')
    /\ call' = [op |-> "expandToLevel", node |-> root, level |-> level,
                keepRoot |-> FALSE, pre |-> expanded]
    /\ UNCHANGED <<out, Shape>>

DoExpandPath(node) ==
    /\ call = NoCall
    /\ expanded' = ExpandPath(node, expanded)
    /\ visible' = CollectRoots(roots, expanded')
    /\ call' = [op |-> "expandPath", node |-> node, level |-> 0, keepRoot |-> FALSE,
                pre |-> expanded]
    /\ UNCHANGED <<out, Shape>>

DoCollectVisible(node) ==
    /\ call = NoCall
    /\ out' = CollectVisible(node, expanded)
    /\ call' = [op |-> "collectVisible", node |-> node, level |-> 0, keepRoot |-> FALSE,
                pre |-> expanded]
    /\ UNCHANGED <<expanded, visible, Shape>>

\* The caller is done with the call's result and goes on.
Continue ==
    /\ call # NoCall
    /\ call' = NoCall
    /\ out' = <<>>
    /\ UNCHANGED <<expanded, visible, Shape>>

Next ==
    \/ \E node \in Nodes : DoExpandAll(node)
    \/ \E node \in Nodes, keepRoot \in BOOLEAN : DoCollapseAll(node, keepRoot)
    \/ \E root \in Range(roots), level \in 0..MaxLevel : DoExpandToLevel(root, level)
    \/ \E node \in Nodes : DoExpandPath(node)
    \/ \E node \in Nodes : DoCollectVisible(node)
    \/ Continue

Spec == Init /\ [][Next]_vars

(***************************************************************************)
(* Search under its callers: sample documents of every shape are loaded,   *)
(* the flags are changed by expandAll and collapseAll, and the trees are   *)
(* searched for any term: one tree by the core's searchTree, in keys, in   *)
(* values, in both or in neither, or all of them by the viewer's loop, in  *)
(* keys or in values.                                                      *)
(***************************************************************************)

\* The terms typed at the search prompt: every string of a, A and l up to MaxTermLen.
SearchTerms == StringsUpTo({"a", "A", "l"}, MaxTermLen)

\* The terms handed to searchTree: the lowercase ones and two that are not.
TreeTerms == StringsUpTo({"a", "l"}, MaxTermLen) \cup {<<"A">>, <<"A", "l">>}

\* The load loop of main on documents up holding vals: the trees are built
\* and the visible list is made.
LoadFiles(up, vals) ==
    /\ jsonDocs = up
    /\ jsonVals = vals
    /\ roots = Items(up, 0)
    /\ LET heap == LoadDocs(up, Items(up, 0))
       IN /\ parent = [n \in DOMAIN heap |-> heap[n].parent]
          /\ children = [n \in DOMAIN heap |-> heap[n].children]
          /\ key = [n \in DOMAIN heap |-> NodeKey(up, vals, n)]
          /\ isDummyRoot = [n \in DOMAIN heap |-> heap[n].isDummyRoot]
          /\ isLastChild = MarkLastRoot(Items(up, 0),
                                        [n \in DOMAIN heap |-> heap[n].isLastChild])
          /\ expanded = [n \in DOMAIN heap |-> heap[n].expanded]
          /\ visible = CollectRoots(Items(up, 0),
                                    [n \in DOMAIN heap |-> heap[n].expanded])

InitSearch ==
    /\ \E up \in DocShapes, v \in SampleVariants :
           /\ Len(up) <= MaxSearchNodes
           /\ LoadFiles(up, SampleVals(up, v))
    /\ out = <<>>
    /\ call = NoCall
    /\ NoFrontEnd

DoSearchTree(root, term, searchKeys, searchValues) ==
    /\ call = NoCall
    /\ out' = SearchTree(root, term, searchKeys, searchValues)
    /\ call' = [op |-> "searchTree", node |-> root, level |-> 0, keepRoot |-> FALSE,
                pre |-> expanded, term |-> term, searchKeys |-> searchKeys,
                searchValues |-> searchValues]
    /\ UNCHANGED <<expanded, visible, Shape>>

\* The search loop of the viewer's keys s and S, on a term already lowercased.
DoViewerSearch(term, searchKeys) ==
    /\ call = NoCall
    /\ out' = ViewerSearchRoots(roots, term, searchKeys, ~searchKeys)
    /\ call' = [op |-> "viewerSearch", node |-> 0, level |-> 0, keepRoot |-> FALSE,
                pre |-> expanded, term |-> term, searchKeys |-> searchKeys,
                searchValues |-> ~searchKeys]
    /\ UNCHANGED <<expanded, visible, Shape>>

NextSearch ==
    \/ \E root \in Range(roots), term \in TreeTerms,
          searchKeys \in BOOLEAN, searchValues \in BOOLEAN :
           DoSearchTree(root, term, searchKeys, searchValues)
    \/ \E term \in SearchTerms, searchKeys \in BOOLEAN :
           DoViewerSearch(ToLower(term), searchKeys)
    \/ \E node \in Nodes : DoExpandAll(node)
    \/ \E node \in Nodes, keepRoot \in BOOLEAN : DoCollapseAll(node, keepRoot)
    \/ Continue

SpecSearch == InitSearch /\ [][NextSearch]_vars

(***************************************************************************)
(* Loading: main of json-view.cpp from its start. The files named on the   *)
(* command line are read in turn; a file holds the next of the documents   *)
(* or a text that does not parse. Each tree is built when its file has     *)
(* been parsed, and after the last file the roots are marked and the key   *)
(* loop begins. No flag is changed, so every tree stays as it was built.   *)
(***************************************************************************)

\* What main has built so far.
Built == <<roots, parent, children, key, isDummyRoot, isLastChild, expanded, liveDocs>>

InitLoad ==
    /\ \E up \in DocShapes, v \in SampleVariants :
           /\ jsonDocs = up
           /\ jsonVals = SampleVals(up, v)
    /\ roots = <<>>
    /\ parent = <<>>
    /\ children = <<>>
    /\ key = <<>>
    /\ isDummyRoot = <<>>
    /\ isLastChild = <<>>
    /\ expanded = <<>>
    /\ visible = <<>>
    /\ out = <<>>
    /\ call = NoCall
    /\ frontEnd = "main"
    /\ liveDocs = {}
    /\ search = EmptySearch
    /\ selected = 0
    /\ nodeMap = <<>>
    /\ last = NoLast

\* One turn of the load loop, on a file that parses (and holds the next
\* document) or does not: the document is pushed on jsonDocs and its tree
\* built and pushed on roots, or the exception of the parser is caught and
\* reported and the loop goes on.
MainLoadFile(parses) ==
    /\ frontEnd = "main"
    /\ call = NoCall
    /\ IF parses
           THEN /\ Len(roots) < Len(Items(jsonDocs, 0))
                /\ LET doc == Items(jsonDocs, 0)[Len(roots) + 1]
                       heap == BuildTree(jsonDocs, doc, 0, TRUE)
                   IN /\ roots' = Append(roots, doc)
                      /\ parent' = parent @@ [n \in DOMAIN heap |-> heap[n].parent]
                      /\ children' = children @@ [n \in DOMAIN heap |-> heap[n].children]
                      /\ key' = key @@ [n \in DOMAIN heap |->
                                           NodeKey(jsonDocs, jsonVals, n)]
                      /\ isDummyRoot' =
                             isDummyRoot @@ [n \in DOMAIN heap |-> heap[n].isDummyRoot]
                      /\ isLastChild' =
                             isLastChild @@ [n \in DOMAIN heap |-> heap[n].isLastChild]
                      /\ expanded' = expanded @@ [n \in DOMAIN heap |-> heap[n].expanded]
                      /\ liveDocs' = liveDocs \cup {doc}
                      /\ call' = [op |-> "load", node |-> doc, level |-> 0,
                                  keepRoot |-> FALSE, pre |-> expanded, before |-> Built]
           ELSE /\ call' = [op |-> "load", node |-> 0, level |-> 0,
                            keepRoot |-> FALSE, pre |-> expanded, before |-> Built]
                /\ UNCHANGED Built
    /\ UNCHANGED <<jsonDocs, jsonVals, visible, out, frontEnd, search, selected, nodeMap,
                   last>>

\* The end of the load loop: the last root is marked, and the key loop is
\* entered, the visible list being collected at its top.
MainLoaded ==
    /\ frontEnd = "main"
    /\ call = NoCall
    /\ Len(roots) = Len(Items(jsonDocs, 0))
    /\ isLastChild' = MarkLastRoot(roots, isLastChild)
    /\ visible' = CollectRoots(roots, expanded)
    /\ frontEnd' = "viewer"
    /\ UNCHANGED <<jsonDocs, jsonVals, roots, parent, children, key, isDummyRoot,
                   expanded, out, call, liveDocs, search, selected, nodeMap, last>>

NextLoad ==
    \/ \E parses \in BOOLEAN : MainLoadFile(parses)
    \/ MainLoaded
    \/ \E node \in Nodes : DoCollectVisible(node)
    \/ Continue

SpecLoad == InitLoad /\ [][NextLoad]_vars

(***************************************************************************)
(* The viewer: the main loop of json-view.cpp. Each action is one turn of  *)
(* the loop, from the key read by getch() to the top of the next turn,     *)
(* where the visible list is collected again and the selection is kept     *)
(* inside it. A command is remembered in last, with the state it was given *)
(* in, until the user has looked at its result.                            *)
(***************************************************************************)

\* The strings typed at a search prompt.
Queries == {<<>>, <<"a">>, <<"A">>}

\* The level keys pressed, of 0 to 9.
LevelKeys == {0, 1, 2}

\* The lines a page holds (rows - 2) on the screens the viewer is run on.
PageSizes == {1, 2}

\* The node on the selected line, visible[selected]; 0 when no line is shown.
Focused == IF selected < Len(visible) THEN visible[selected + 1] ELSE 0

\* The loops that look a node up in a list and break: its index, or other
\* when the node is not in the list.
LineOf(list, node, other) ==
    IF \E i \in DOMAIN list : list[i] = node
        THEN (CHOOSE i \in DOMAIN list :
                  list[i] = node /\ \A j \in 1..(i - 1) : list[j] # node) - 1
        ELSE other

\* (currentIndex + 1) % matches.size()
NextIndex(c, n) == (c + 1) % n

\* (currentIndex - 1 + matches.size()) % matches.size()
PrevIndexStopAtFirst(c, n) == IF c = 0 THEN 0 ELSE c - 1
PrevIndex(c, n) == (c - 1 + n) % n

RECURSIVE ExpandAllRoots(_, _)
\* for (auto &r : roots) expandAll(r.get())
ExpandAllRoots(rs, e) ==
    IF rs = <<>> THEN e ELSE ExpandAllRoots(Tail(rs), ExpandAll(Head(rs), e))

RECURSIVE CollapseAllRoots(_, _)
\* for (auto &r : roots) collapseAll(r.get(), true)
CollapseAllRoots(rs, e) ==
    IF rs = <<>> THEN e ELSE CollapseAllRoots(Tail(rs), CollapseAll(Head(rs), TRUE, e))

RECURSIVE ExpandToLevelRoots(_, _, _)
\* for (auto &r : roots) expandToLevel(r.get(), level, 0)
ExpandToLevelRoots(rs, level, e) ==
    IF rs = <<>>
        THEN e
        ELSE ExpandToLevelRoots(Tail(rs), level, ExpandToLevel(Head(rs), level, 0, e))

RECURSIVE NodeLevel(_)
\* nodeLevel of the level keys: the steps up from the node to a dummy root.
NodeLevel(n) ==
    IF parent[n] = 0
        THEN 0
        ELSE IF isDummyRoot[parent[n]] THEN 1 ELSE 1 + NodeLevel(parent[n])

\* What the keys of a front end leave alone, but for the json value of the
\* copy handler.
Session ==
    <<jsonDocs, jsonVals, roots, parent, children, key, isDummyRoot, isLastChild,
      call, frontEnd, liveDocs, nodeMap>>

\* What the viewer's keys leave alone.
Loaded == <<Session, out>>

\* reconstructJson(node), for a node whose value is where buildTree found it:
\* *node->value, for a dummy root as for any other node.
ReconstructJson(node) ==
    IF isDummyRoot[node]
        THEN Json(jsonDocs, jsonVals, node)
        ELSE Json(jsonDocs, jsonVals, node)

\* The viewer waits for a key, no search command being looked at.
Viewing == frontEnd = "viewer" /\ last = NoLast

\* The top of the main loop, reached with flags e and selection sel.
LoopTop(e, sel) ==
    /\ expanded' = e
    /\ visible' = CollectRoots(roots, e)
    /\ selected' = Min(sel, Len(CollectRoots(roots, e)) - 1)

\* The command cmd, given with query typed, as last remembers it: the flags,
\* the index and the selected node it finds, for a command given again at
\* once, how often it was and what the first one found, and for next and
\* previous the search state they find.
Remember(cmd, query) ==
    [cmd |-> cmd, query |-> query, pre |-> expanded, index |-> search.currentIndex,
     focus |-> Focused,
     run |-> IF last.cmd = cmd THEN last.run + 1 ELSE 1,
     start |-> IF last.cmd = cmd THEN last.start ELSE search.currentIndex,
     startFocus |-> IF last.cmd = cmd THEN last.startFocus ELSE Focused,
     was |-> IF cmd \in {"next", "prev"} THEN search ELSE EmptySearch,
     after |-> IF last.cmd # cmd THEN last.cmd ELSE "none",
     origin |-> IF last.cmd # cmd THEN last.focus ELSE 0]

KeyUp ==
    /\ Viewing
    /\ LoopTop(expanded, IF selected > 0 THEN selected - 1 ELSE selected)
    /\ UNCHANGED <<search, last, Loaded>>

\* A Down that does not stop at the last line, on a loop that does not bring
\* the selection back inside the list.
KeyDownPastEnd ==
    /\ Viewing
    /\ selected' = selected + 1
    /\ UNCHANGED <<expanded, visible, search, last, Loaded>>

KeyDown ==
    /\ Viewing
    /\ LoopTop(expanded, IF selected + 1 < Len(visible) THEN selected + 1 ELSE selected)
    /\ UNCHANGED <<search, last, Loaded>>

\* Page Down on a screen of pageSize + 2 rows.
KeyPageDown(pageSize) ==
    /\ Viewing
    /\ LoopTop(expanded, Min(selected + pageSize, Len(visible) - 1))
    /\ UNCHANGED <<search, last, Loaded>>

KeyPageUp(pageSize) ==
    /\ Viewing
    /\ LoopTop(expanded, IF selected >= pageSize THEN selected - pageSize ELSE 0)
    /\ UNCHANGED <<search, last, Loaded>>

KeyHome ==
    /\ Viewing
    /\ LoopTop(expanded, 0)
    /\ UNCHANGED <<search, last, Loaded>>

KeyEnd ==
    /\ Viewing
    /\ LoopTop(expanded, Len(visible) - 1)
    /\ UNCHANGED <<search, last, Loaded>>

\* A click on line idx; toggle: a double click, or a click left of the label.
MouseClick(idx, toggle) ==
    /\ Viewing
    /\ idx < Len(visible)
    /\ LET n == visible[idx + 1]
       IN LoopTop(IF toggle /\ children[n] # <<>>
                     THEN [expanded EXCEPT ![n] = ~expanded[n]]
                     ELSE expanded,
                 idx)
    /\ UNCHANGED <<search, last, Loaded>>

KeyLeft ==
    /\ Viewing
    /\ LET n == Focused
       IN IF expanded[n] /\ children[n] # <<>>
              THEN LoopTop([expanded EXCEPT ![n] = FALSE], selected)
              ELSE IF parent[n] # 0
                       THEN LoopTop(expanded, LineOf(visible, parent[n], selected))
                       ELSE LoopTop(expanded, selected)
    /\ last' = Remember("left", <<>>)
    /\ UNCHANGED <<search, Loaded>>

\* A Right that goes on to the first child of a node already expanded.
KeyRightIntoChildren ==
    /\ Viewing
    /\ LET n == Focused
       IN IF expanded[n] /\ children[n] # <<>>
              THEN LoopTop(expanded, LineOf(visible, children[n][1], selected))
              ELSE LoopTop(IF children[n] # <<>>
                               THEN [expanded EXCEPT ![n] = TRUE]
                               ELSE expanded,
                           selected)
    /\ last' = Remember("right", <<>>)
    /\ UNCHANGED <<search, Loaded>>

KeyRight ==
    /\ Viewing
    /\ LET n == Focused
       IN LoopTop(IF children[n] # <<>> THEN [expanded EXCEPT ![n] = TRUE] ELSE expanded,
                 selected)
    /\ last' = Remember("right", <<>>)
    /\ UNCHANGED <<search, Loaded>>

KeyPlus ==
    /\ Viewing
    /\ LoopTop(ExpandAllRoots(roots, expanded), selected)
    /\ last' = Remember("plus", <<>>)
    /\ UNCHANGED <<search, Loaded>>

KeyMinus ==
    /\ Viewing
    /\ LET selectedNode == Focused
           e == ExpandPath(selectedNode, CollapseAllRoots(roots, expanded))
       IN LoopTop(e, LineOf(CollectRoots(roots, e), selectedNode, selected))
    /\ last' = Remember("minus", <<>>)
    /\ UNCHANGED <<search, Loaded>>

\* A level key that leaves the selected index as it is.
KeyLevelKeepIndex(level) ==
    /\ Viewing
    /\ LET selectedNode == Focused
           levelled == ExpandToLevelRoots(roots, level, expanded)
           e == IF level = 0 \/ NodeLevel(selectedNode) <= level
                    THEN ExpandPath(selectedNode, levelled)
                    ELSE levelled
       IN LoopTop(e, selected)
    /\ last' = Remember("level", <<DigitChars[level + 1]>>)
    /\ UNCHANGED <<search, Loaded>>

\* The keys 0 to 9.
KeyLevel(level) ==
    /\ Viewing
    /\ LET selectedNode == Focused
           levelled == ExpandToLevelRoots(roots, level, expanded)
           e == IF level = 0 \/ NodeLevel(selectedNode) <= level
                    THEN ExpandPath(selectedNode, levelled)
                    ELSE levelled
       IN LoopTop(e, LineOf(CollectRoots(roots, e), selectedNode, 0))
    /\ last' = Remember("level", <<DigitChars[level + 1]>>)
    /\ UNCHANGED <<search, Loaded>>

\* The search state a new search leaves: term, flags and matches are
\* replaced and currentIndex = 0.
NewSearch(term, searchKeys, searchValues, matches) ==
    [term |-> term, searchKeys |-> searchKeys, searchValues |-> searchValues,
     matches |-> matches, currentIndex |-> 0]

\* The keys s and / (searchKeys) and S: the term typed is lowercased and
\* searched for in all documents, and the first match is jumped to.
ViewerSearch(query, searchKeys) ==
    /\ Viewing
    /\ LET lower == ToLower(query)
           matches == ViewerSearchRoots(roots, lower, searchKeys, ~searchKeys)
           e == IF matches # <<>> THEN ExpandPath(matches[1], expanded) ELSE expanded
       IN /\ search' = NewSearch(lower, searchKeys, ~searchKeys, matches)
          /\ LoopTop(e, IF matches # <<>>
                            THEN LineOf(CollectRoots(roots, e), matches[1], selected)
                            ELSE selected)
    /\ last' = Remember("search", query)
    /\ UNCHANGED Loaded

KeySearch(query) == ViewerSearch(query, TRUE)

KeySearchValue(query) == ViewerSearch(query, FALSE)

\* The keys n ("next") and N ("prev"), also when given again at once, up to
\* as many times as there are matches, and N given at once after one n.
ViewerNavigate(cmd) ==
    /\ frontEnd = "viewer"
    /\ \/ last = NoLast
       \/ last.cmd = cmd /\ last.run < Len(search.matches)
       \/ cmd = "prev" /\ last.cmd = "next" /\ last.run = 1
    /\ IF search.term # <<>> /\ search.matches # <<>>
           THEN LET n == Len(search.matches)
                    from == LineOf(search.matches, Focused, search.currentIndex)
                    to == IF cmd = "next" THEN NextIndex(from, n) ELSE PrevIndex(from, n)
                    match == search.matches[to + 1]
                    e == ExpandPath(match, expanded)
                IN /\ search' = [search EXCEPT !.currentIndex = to]
                   /\ LoopTop(e, LineOf(CollectRoots(roots, e), match, selected))
           ELSE /\ search' = search
                /\ LoopTop(expanded, selected)
    /\ last' = Remember(cmd, <<>>)
    /\ UNCHANGED Loaded

KeyNext == ViewerNavigate("next")

KeyPrevious == ViewerNavigate("prev")

\* The key c.
KeyClear ==
    /\ Viewing
    /\ search' = [search EXCEPT !.term = <<>>, !.matches = <<>>, !.currentIndex = 0]
    /\ LoopTop(expanded, selected)
    /\ last' = Remember("clear", <<>>)
    /\ UNCHANGED Loaded

\* The key y: the value of the selected node is reconstructed into the local
\* jsonData and its dump is copied.
KeyCopy ==
    /\ Viewing
    /\ out' = ReconstructJson(Focused)
    /\ LoopTop(expanded, selected)
    /\ last' = Remember("copy", <<>>)
    /\ UNCHANGED <<search, Session>>

\* The user has looked at what the last command did; the json value of a
\* copy handler is gone by then.
Looked ==
    /\ last # NoLast
    /\ last' = NoLast
    /\ out' = <<>>
    /\ UNCHANGED <<search, selected, expanded, visible, Session>>

\* The sample documents the front ends are run on.
FrontEndVariants == {0, 1}

InitViewer ==
    /\ \E up \in DocShapes, v \in FrontEndVariants :
           /\ Len(up) <= MaxSearchNodes
           /\ LoadFiles(up, SampleVals(up, v))
    /\ out = <<>>
    /\ call = NoCall
    /\ NoFrontEnd

NextViewer ==
    \/ KeyUp
    \/ KeyDown
    \/ \E pageSize \in PageSizes : KeyPageDown(pageSize)
    \/ \E pageSize \in PageSizes : KeyPageUp(pageSize)
    \/ KeyHome
    \/ KeyEnd
    \/ \E idx \in 0..(MaxSearchNodes - 1), toggle \in BOOLEAN : MouseClick(idx, toggle)
    \/ KeyLeft
    \/ KeyRight
    \/ KeyPlus
    \/ KeyMinus
    \/ \E level \in LevelKeys : KeyLevel(level)
    \/ \E query \in Queries : KeySearch(query)
    \/ \E query \in Queries : KeySearchValue(query)
    \/ KeyNext
    \/ KeyPrevious
    \/ KeyClear
    \/ KeyCopy

(***************************************************************************)
(* The app: JsonViewApp of json-view-app.cpp, which shows one document at  *)
(* a time in an outline. The outline's own flags (JsonTNode::expanded) are  *)
(* kept in nodeMap, its lines are the visible list of the root under these *)
(* flags, and its focus foc is selected. loadFile parses into a            *)
(* local json j and builds the tree on &j: at its return j is gone while   *)
(* the nodes stay, so what a later read through Node::value finds is not   *)
(* determined.                                                             *)
(***************************************************************************)

RECURSIVE DanglingSearchTree(_, _, _, _, _)
RECURSIVE DanglingSearchTreeChildren(_, _, _, _, _)

DanglingSearchTreeChildren(kids, term, searchKeys, searchValues, hits) ==
    IF kids = <<>>
        THEN <<>>
        ELSE DanglingSearchTree(Head(kids), term, searchKeys, searchValues, hits)
             \o DanglingSearchTreeChildren(Tail(kids), term, searchKeys, searchValues, hits)

\* searchTree on a tree whose document is gone: hits are the nodes at whose
\* value pointer the memory happens to read as a value holding the term.
DanglingSearchTree(node, term, searchKeys, searchValues, hits) ==
    LET matched ==
            /\ term # <<>>
            /\ \/ searchKeys /\ KeyHit(node, term)
               \/ searchValues /\ node \in hits
    IN (IF matched THEN <<node>> ELSE <<>>)
       \o DanglingSearchTreeChildren(children[node], term, searchKeys, searchValues, hits)

\* What the reads of a value search for term may find where the document
\* was: the values as they were, a match at every node, or none at all.
DanglingReads(term) == {{n \in Nodes : ValueHit(n, term)}, Nodes, {}}

\* What reconstructJson(node) returns when the document the tree was built on
\* is gone: the value that was there, or whatever else the memory holds by
\* then, here a null.
DanglingJson(node) ==
    {Json(jsonDocs, jsonVals, node),
     [type |-> "null", text |-> <<>>, flag |-> FALSE, num |-> 0, members |-> <<>>]}

\* The tree loadFile builds for document doc: root = buildTree(&j, name,
\* nullptr, true), and the lines of the outline made for it.
AppTree(up, vals, doc) ==
    LET heap == BuildTree(up, doc, 0, TRUE)
    IN [roots       |-> <<doc>>,
        parent      |-> [n \in DOMAIN heap |-> heap[n].parent],
        children    |-> [n \in DOMAIN heap |-> heap[n].children],
        key         |-> [n \in DOMAIN heap |-> NodeKey(up, vals, n)],
        isDummyRoot |-> [n \in DOMAIN heap |-> heap[n].isDummyRoot],
        isLastChild |-> [n \in DOMAIN heap |-> heap[n].isLastChild],
        expanded    |-> [n \in DOMAIN heap |-> heap[n].expanded],
        visible     |-> <<doc>> \o heap[doc].children]

\* What the app's events leave alone.
Disk == <<jsonDocs, jsonVals, out, call>>
Files == <<Disk, frontEnd>>
Tree == <<roots, parent, children, key, isDummyRoot, isLastChild, liveDocs>>

\* The name of a file whose text does not parse.
BadFile == <<"b">>

\* The app waits for an event, no search command being looked at.
Running == frontEnd = "app" /\ last = NoLast

\* loadFile(name), from Open, on the file that holds document doc or, for
\* doc = 0, a text that does not parse. The exception of the parser is not
\* caught by loadFile nor by anything that calls it: the program is
\* terminated.
AppOpen(doc) ==
    /\ Running
    /\ IF doc # 0
           THEN /\ LET t == AppTree(jsonDocs, jsonVals, doc)
                   IN /\ roots' = t.roots
                      /\ parent' = t.parent
                      /\ children' = t.children
                      /\ key' = t.key
                      /\ isDummyRoot' = t.isDummyRoot
                      /\ isLastChild' = t.isLastChild
                      /\ expanded' = t.expanded
                      /\ visible' = t.visible
                      /\ nodeMap' = t.expanded
                /\ liveDocs' = {}
                /\ search' = EmptySearch
                /\ selected' = 0
                /\ last' = Remember("open", jsonVals[doc].name)
                /\ UNCHANGED Files
           ELSE /\ frontEnd' = "ended"
                /\ last' = Remember("open", BadFile)
                /\ UNCHANGED <<Disk, Tree, expanded, visible, search, selected, nodeMap>>

\* A closeFile that leaves the search state and nodeMap as they are.
CloseFileKeepSearch ==
    /\ Running
    /\ roots' = <<>>
    /\ parent' = <<>>
    /\ children' = <<>>
    /\ key' = <<>>
    /\ isDummyRoot' = <<>>
    /\ isLastChild' = <<>>
    /\ expanded' = <<>>
    /\ visible' = <<>>
    /\ liveDocs' = {}
    /\ selected' = 0
    /\ last' = Remember("close", <<>>)
    /\ UNCHANGED <<search, nodeMap, Files>>

\* closeFile()
AppClose ==
    /\ Running
    /\ roots' = <<>>
    /\ parent' = <<>>
    /\ children' = <<>>
    /\ key' = <<>>
    /\ isDummyRoot' = <<>>
    /\ isLastChild' = <<>>
    /\ expanded' = <<>>
    /\ visible' = <<>>
    /\ liveDocs' = {}
    /\ search' = EmptySearch
    /\ selected' = 0
    /\ nodeMap' = <<>>
    /\ last' = Remember("close", <<>>)
    /\ UNCHANGED Files

\* The outline after the flags of the nodes became e and those of its own
\* nodes t: its lines, which follow its own flags, and the focus kept inside
\* them.
Outline(e, t, foc) ==
    /\ expanded' = e
    /\ nodeMap' = t
    /\ visible' = CollectVisible(roots[1], t)
    /\ selected' = Min(foc, Len(CollectVisible(roots[1], t)) - 1)

\* An outline whose flags are left as they are.
SyncExpandedNever(t, e) == t

\* syncExpanded(outline->root): every outline node takes the flag of its node.
SyncExpanded(t, e) == [n \in DOMAIN t |-> e[n]]

\* outline->focusNode(nodeMap[n]) on lines vis: the line of n when it is one
\* of them, the focus as it is otherwise.
FocusNode(vis, n) == LineOf(vis, n, selected)

\* A Find Next that does not wrap.
FindNextIndexNoWrap(c, n) == c + 1

\* Find Next: (search.currentIndex + 1) % search.matches.size()
FindNextIndex(c, n) == (c + 1) % n

\* doSearch from "if (search.matches.empty())" on, with search state s: the
\* current match and the nodes above it are expanded and the match gets the
\* focus; Find Next then moves the index on.
ShowMatch(s, newTerm) ==
    IF s.matches = <<>>
        THEN /\ search' = s
             /\ UNCHANGED <<expanded, visible, selected, nodeMap>>
        ELSE LET n == s.matches[s.currentIndex + 1]
                 e == ExpandPathFrom(n, expanded)
                 t == ExpandPathFrom(n, nodeMap)
             IN /\ Outline(e, t, FocusNode(CollectVisible(roots[1], t), n))
                /\ search' = IF newTerm
                                 THEN s
                                 ELSE [s EXCEPT !.currentIndex =
                                          FindNextIndex(s.currentIndex, Len(s.matches))]

\* Find: doSearch(true) with the term typed and the mode chosen in the
\* dialog (0 keys, 1 values, 2 both).
AppFind(query, mode) ==
    /\ Running
    /\ IF roots = <<>>
           THEN UNCHANGED <<search, expanded, visible, selected, nodeMap>>
           ELSE \E hits \in IF mode # 0 /\ query # <<>> THEN DanglingReads(query) ELSE {{}} :
                    ShowMatch(NewSearch(query, mode # 1, mode # 0,
                                        DanglingSearchTree(roots[1], query, mode # 1,
                                                           mode # 0, hits)),
                              TRUE)
    /\ last' = Remember("search", query)
    /\ UNCHANGED <<Files, Tree>>

\* Find Next: doSearch(false), also when given again at once.
AppFindNext ==
    /\ frontEnd = "app"
    /\ last = NoLast \/ (last.cmd = "next" /\ last.run < Len(search.matches))
    /\ IF roots = <<>>
           THEN UNCHANGED <<search, expanded, visible, selected, nodeMap>>
           ELSE ShowMatch(search, FALSE)
    /\ last' = Remember("next", <<>>)
    /\ UNCHANGED <<Files, Tree>>

\* A Find Previous that puts the focus on the first line.
FindPrevToTop ==
    /\ frontEnd = "app"
    /\ \/ last = NoLast
       \/ last.cmd = "prev" /\ last.run < Len(search.matches)
       \/ last.cmd = "next" /\ last.run = 1
    /\ selected' = 0
    /\ last' = Remember("prev", <<>>)
    /\ UNCHANGED <<search, expanded, visible, nodeMap, Files, Tree>>

\* Find Previous, also when given again at once, or at once after one Find
\* Next.
AppFindPrev ==
    /\ frontEnd = "app"
    /\ \/ last = NoLast
       \/ last.cmd = "prev" /\ last.run < Len(search.matches)
       \/ last.cmd = "next" /\ last.run = 1
    /\ IF search.matches # <<>>
           THEN LET to == PrevIndex(search.currentIndex, Len(search.matches))
                IN /\ search' = [search EXCEPT !.currentIndex = to]
                   /\ selected' = FocusNode(visible, search.matches[to + 1])
           ELSE UNCHANGED <<search, selected>>
    /\ last' = Remember("prev", <<>>)
    /\ UNCHANGED <<expanded, visible, nodeMap, Files, Tree>>

\* An End Search that closes the file as well.
EndSearchAndClose ==
    /\ Running
    /\ roots' = <<>>
    /\ parent' = <<>>
    /\ children' = <<>>
    /\ key' = <<>>
    /\ isDummyRoot' = <<>>
    /\ isLastChild' = <<>>
    /\ expanded' = <<>>
    /\ visible' = <<>>
    /\ search' = EmptySearch
    /\ selected' = 0
    /\ nodeMap' = <<>>
    /\ last' = Remember("clear", <<>>)
    /\ UNCHANGED <<liveDocs, Files>>

\* Esc, and the command End Search.
AppEndSearch ==
    /\ Running
    /\ search' = IF search.matches # <<>> THEN EmptySearch ELSE search
    /\ last' = Remember("clear", <<>>)
    /\ UNCHANGED <<expanded, visible, selected, nodeMap, Files, Tree>>

\* Ctrl-Shift-digit and the level commands.
AppLevel(level) ==
    /\ Running
    /\ IF roots # <<>>
           THEN LET e == ExpandToLevel(roots[1], level, 0, expanded)
                IN Outline(e, SyncExpanded(nodeMap, e), selected)
           ELSE UNCHANGED <<expanded, visible, selected, nodeMap>>
    /\ UNCHANGED <<search, last, Files, Tree>>

\* A click on line idx of the outline: the line gets the focus and, when the
\* click is left of the label, its node is toggled.
AppClick(idx, inPrefix) ==
    /\ Running
    /\ idx < Len(visible)
    /\ LET n == visible[idx + 1]
           t == IF inPrefix THEN [nodeMap EXCEPT ![n] = ~nodeMap[n]] ELSE nodeMap
       IN Outline(IF inPrefix THEN [expanded EXCEPT ![n] = t[n]] ELSE expanded, t, idx)
    /\ UNCHANGED <<search, last, Files, Tree>>

AppLeft ==
    /\ Running
    /\ roots # <<>>
    /\ LET n == Focused
       IN IF nodeMap[n] /\ children[n] # <<>>
              THEN Outline([expanded EXCEPT ![n] = FALSE],
                           [nodeMap EXCEPT ![n] = FALSE], selected)
              ELSE IF parent[n] # 0
                       THEN Outline(expanded, nodeMap, FocusNode(visible, parent[n]))
                       ELSE Outline(expanded, nodeMap, selected)
    /\ UNCHANGED <<search, last, Files, Tree>>

AppRight ==
    /\ Running
    /\ roots # <<>>
    /\ LET n == Focused
       IN IF ~nodeMap[n] /\ children[n] # <<>>
              THEN Outline([expanded EXCEPT ![n] = TRUE],
                           [nodeMap EXCEPT ![n] = TRUE], selected)
              ELSE IF children[n] # <<>>
                       THEN Outline(expanded, nodeMap,
                                    FocusNode(visible, children[n][1]))
                       ELSE Outline(expanded, nodeMap, selected)
    /\ UNCHANGED <<search, last, Files, Tree>>

\* copySelection(), from Copy: the value of the focused node is reconstructed
\* into the local j and its dump is copied.
AppCopy ==
    /\ Running
    /\ IF roots # <<>>
           THEN out' \in DanglingJson(Focused)
           ELSE out' = out
    /\ last' = Remember("copy", <<>>)
    /\ UNCHANGED <<jsonDocs, jsonVals, call, frontEnd, Tree, expanded, visible, search,
                   selected, nodeMap>>

\* JsonViewApp(argc, argv): every file named is loaded in turn, the last one
\* is shown.
InitApp ==
    /\ \E up \in DocShapes, v \in FrontEndVariants :
           /\ Len(up) <= MaxSearchNodes
           /\ jsonDocs = up
           /\ jsonVals = SampleVals(up, v)
           /\ LET docs == Items(up, 0)
                  t == AppTree(up, SampleVals(up, v), docs[Len(docs)])
              IN /\ roots = t.roots
                 /\ parent = t.parent
                 /\ children = t.children
                 /\ key = t.key
                 /\ isDummyRoot = t.isDummyRoot
                 /\ isLastChild = t.isLastChild
                 /\ expanded = t.expanded
                 /\ visible = t.visible
                 /\ nodeMap = t.expanded
    /\ out = <<>>
    /\ call = NoCall
    /\ frontEnd = "app"
    /\ liveDocs = {}
    /\ search = EmptySearch
    /\ selected = 0
    /\ last = NoLast

NextApp ==
    \/ \E doc \in Range(Items(jsonDocs, 0)) \cup {0} : AppOpen(doc)
    \/ AppClose
    \/ \E query \in Queries, mode \in 0..2 : AppFind(query, mode)
    \/ AppFindNext
    \/ AppFindPrev
    \/ AppEndSearch
    \/ \E level \in LevelKeys : AppLevel(level)
    \/ \E idx \in 0..(MaxSearchNodes - 1), inPrefix \in BOOLEAN : AppClick(idx, inPrefix)
    \/ AppLeft
    \/ AppRight
    \/ AppCopy

InitFrontEnds == InitViewer \/ InitApp

NextFrontEnds == NextViewer \/ NextApp \/ Looked

SpecFrontEnds == InitFrontEnds /\ [][NextFrontEnds]_vars

\* Each front end on its own.
SpecViewer == InitViewer /\ [][NextViewer \/ Looked]_vars

SpecApp == InitApp /\ [][NextApp \/ Looked]_vars

(***************************************************************************)
(* The labels of the lines. A label is the sequence of the characters and  *)
(* words it is put together from; the names of the sample files are short  *)
(* enough to be shown whole (shortenPath returns the path).                *)
(***************************************************************************)

\* count == 1 ? one : many
Plural(count, one, many) == IF count = 1 THEN one ELSE many

\* getContentLabel(node): for a root the file's name and in parentheses the
\* type of its top value and the size of the file; for another node the key
\* and the type of its container or its value.
GetContentLabel(node) ==
    LET v == jsonVals[node]
        count == Len(children[node])
    IN IF isDummyRoot[node]
           THEN key[node] \o <<" ", "(">>
                \o (CASE v.type = "object" ->
                             <<"dictionary", ",", " ">> \o DecimalString(count)
                             \o <<" ", Plural(count, "key", "keys")>>
                       [] v.type = "array" ->
                             <<"list", ",", " ">> \o DecimalString(count)
                             \o <<" ", Plural(count, "item", "items")>>
                       [] OTHER -> <<v.type>>)
                \o <<",", " ", "size">> \o <<")">>
           ELSE CASE v.type = "object" ->
                        key[node] \o <<" ", "(", "dictionary", ",", " ">>
                        \o DecimalString(count) \o <<" ", Plural(count, "key", "keys"), ")">>
                  [] v.type = "array" ->
                        key[node] \o <<" ", "(", "list", ",", " ">>
                        \o DecimalString(count) \o <<" ", Plural(count, "item", "items"), ")">>
                  [] v.type = "string" -> key[node] \o <<":", " ", "\"">> \o v.text \o <<"\"">>
                  [] OTHER -> key[node] \o <<":", " ">> \o ValueString(v)

RECURSIVE TopOf(_)
\* while (current->parent != nullptr) current = current->parent
TopOf(current) == IF parent[current] = 0 THEN current ELSE TopOf(parent[current])

RECURSIVE MatchCountAll(_, _)
\* A count of all the matches, whatever their root.
MatchCountAll(node, matches) ==
    IF matches = <<>> THEN 0 ELSE 1 + MatchCountAll(node, Tail(matches))

RECURSIVE MatchCount(_, _)
\* The loop of getContentLabelWithSearch over search.matches: the matches
\* from which the walk up ends at node.
MatchCount(node, matches) ==
    IF matches = <<>>
        THEN 0
        ELSE (IF TopOf(Head(matches)) = node THEN 1 ELSE 0)
             + MatchCount(node, Tail(matches))

\* baseLabel.rfind(')'): the last place of c in label, 0 for npos.
LastPlace(label, c) ==
    IF c \in Range(label)
        THEN CHOOSE i \in DOMAIN label :
                 label[i] = c /\ \A j \in (i + 1)..Len(label) : label[j] # c
        ELSE 0

\* getContentLabelWithSearch(node, search): the label of a root gets the
\* number of matches below it put in before its closing parenthesis.
GetContentLabelWithSearch(node, s) ==
    LET baseLabel == GetContentLabel(node)
        matchCount == MatchCount(node, s.matches)
        closeParenPos == LastPlace(baseLabel, ")")
        matchInfo == <<",", " ", "glass", " ">> \o DecimalString(matchCount)
                     \o <<" ", Plural(matchCount, "match", "matches")>>
    IN IF /\ isDummyRoot[node]
          /\ s.term # <<>> /\ s.matches # <<>>
          /\ matchCount > 0
          /\ closeParenPos # 0
           THEN SubSeq(baseLabel, 1, closeParenPos - 1) \o matchInfo
                \o SubSeq(baseLabel, closeParenPos, Len(baseLabel))
           ELSE baseLabel

(***************************************************************************)
(* Notions the properties are stated in, read off the parent pointers and  *)
(* the child lists without running any of the functions above.             *)
(***************************************************************************)

RECURSIVE Ancestors(_)
\* The strict ancestors of n, up to and including its root.
Ancestors(n) == IF parent[n] = 0 THEN {} ELSE {parent[n]} \cup Ancestors(parent[n])

\* Depth from the root: the root 0, its children 1.
Depth(n) == Cardinality(Ancestors(n))

\* n and its descendants.
Subtree(n) == {m \in Nodes : m = n \/ n \in Ancestors(m)}

RootOf(n) == CHOOSE r \in Range(roots) : n \in Subtree(r)

IndexOf(s, x) == CHOOSE i \in DOMAIN s : s[i] = x

RECURSIVE Path(_)
\* Where n sits: the index of its root among the roots, then the index of
\* each node on the way down in its parent's child list.
Path(n) ==
    IF parent[n] = 0
        THEN <<IndexOf(roots, n)>>
        ELSE Append(Path(parent[n]), IndexOf(children[parent[n]], n))

\* p comes before q in depth-first pre-order: p is a proper prefix of q, or
\* p is smaller at the first index where they differ.
PathBefore(p, q) ==
    \/ Len(p) < Len(q) /\ \A i \in 1..Len(p) : p[i] = q[i]
    \/ \E i \in 1..Len(p) :
           /\ i <= Len(q)
           /\ p[i] < q[i]
           /\ \A j \in 1..(i - 1) : p[j] = q[j]

\* The nodes of S in depth-first pre-order.
PreOrderOf(S) ==
    [i \in 1..Cardinality(S) |->
        CHOOSE n \in S : Cardinality({m \in S : PathBefore(Path(m), Path(n))}) = i - 1]

\* Every ancestor of n, the root included, is expanded.
AncestorsExpanded(n) == \A a \in Ancestors(n) : expanded[a]

\* The nodes of the subtree of n reached from n through expanded nodes only.
VisibleBelow(n) ==
    {m \in Subtree(n) : \A a \in Ancestors(m) \cap Subtree(n) : expanded[a]}

(***************************************************************************)
(* Properties.                                                             *)
(***************************************************************************)

\* C1: visibility soundness. For every tree and every assignment of the
\* expanded flags, a node is in collectVisible(root) iff it lies under that
\* root and every one of its ancestors, the root included, is expanded; so
\* the main loop's visible list holds exactly the nodes whose ancestors are
\* all expanded, and every root is in it in every reachable state.
C1_VisibilitySoundness ==
    /\ (call.op = "collectVisible" /\ isDummyRoot[call.node]) =>
           \A n \in Nodes :
               n \in Range(out) <=> (n \in Subtree(call.node) /\ AncestorsExpanded(n))
    /\ \A n \in Nodes : n \in Range(visible) <=> AncestorsExpanded(n)
    /\ \A r \in Range(roots) : r \in Range(visible)

\* Two documents, collectVisible just called on the root of one; under one
\* a child is shown, under the other a node is hidden although its own
\* parent is expanded (its root is collapsed).
C1_Witness ==
    /\ Len(roots) >= 2
    /\ call.op = "collectVisible"
    /\ isDummyRoot[call.node]
    /\ Len(out) >= 2
    /\ \E n \in Nodes : parent[n] # 0 /\ n \in Range(visible)
    /\ \E m \in Nodes :
           /\ parent[m] # 0
           /\ expanded[parent[m]]
           /\ m \notin Range(visible)

\* C2: collectVisible(node) lists the nodes reached from node through expanded
\* nodes, in depth-first pre-order: node first, each such node once, a node
\* before its descendants, siblings in child-list order; for
\* {"a":1,"b":[2,3]} after expandAll(root) the list is [root, a, b, b[0], b[1]].
C2_PreOrder ==
    /\ call.op = "collectVisible" =>
           /\ out[1] = call.node
           /\ Range(out) = VisibleBelow(call.node)
           /\ \A i, j \in DOMAIN out :
                  i < j => PathBefore(Path(out[i]), Path(out[j]))
    /\ (jsonDocs = ExampleDoc /\ call.op = "expandAll" /\ call.node = 1) =>
           visible = <<1, 2, 3, 4, 5>>

\* A traversal that comes back up from a grandchild to a child of the node
\* it started at, and that leaves a collapsed part out.
C2_Witness ==
    /\ call.op = "collectVisible"
    /\ Len(out) >= 4
    /\ \E i \in 1..(Len(out) - 1) :
           /\ Depth(out[i]) = Depth(call.node) + 2
           /\ Depth(out[i + 1]) = Depth(call.node) + 1
    /\ Subtree(call.node) # Range(out)

\* C3 as stated: after expandToLevel(root, k), k >= 1, a node is expanded iff
\* its depth is < k and it has children.
C3_AsStated ==
    (call.op = "expandToLevel" /\ call.level >= 1) =>
        \A n \in Subtree(call.node) :
            expanded[n] <=> (Depth(n) < call.level /\ children[n] # <<>>)

\* C3: after expandToLevel(root, k), k >= 1, from any prior flags, a node of
\* the tree is expanded iff its depth is < k, whether or not it has children;
\* no node at depth k or beyond is expanded.
C3_DepthBound ==
    (call.op = "expandToLevel" /\ call.level >= 1) =>
        \A n \in Subtree(call.node) : expanded[n] <=> Depth(n) < call.level

\* A call that expands a childless node above the cut line and collapses a
\* node with children, expanded before, at the cut line or beyond it.
C3_Witness ==
    /\ call.op = "expandToLevel"
    /\ call.level >= 1
    /\ \E n \in Subtree(call.node) :
           /\ children[n] = <<>>
           /\ Depth(n) < call.level
           /\ ~call.pre[n]
    /\ \E n \in Subtree(call.node) :
           /\ children[n] # <<>>
           /\ Depth(n) >= call.level
           /\ call.pre[n]

\* C4 as stated: the root is forced expanded, every non-root node at depth
\* d <= targetLevel is expanded, every node at depth d > targetLevel is
\* collapsed with all its descendants.
C4_AsStated ==
    (call.op = "expandToLevel" /\ call.level >= 1) =>
        /\ expanded[call.node]
        /\ \A n \in Subtree(call.node) \ {call.node} :
               /\ Depth(n) <= call.level => expanded[n]
               /\ Depth(n) > call.level => \A m \in Subtree(n) : ~expanded[m]

\* C4: for expandToLevel(root, targetLevel), targetLevel >= 1: the root is
\* forced expanded; every non-root node at depth d < targetLevel is expanded;
\* every node at depth d >= targetLevel is collapsed with all its descendants.
C4_CutLine ==
    (call.op = "expandToLevel" /\ call.level >= 1) =>
        /\ expanded[call.node]
        /\ \A n \in Subtree(call.node) \ {call.node} :
               /\ Depth(n) < call.level => expanded[n]
               /\ Depth(n) >= call.level => \A m \in Subtree(n) : ~expanded[m]

\* A call on a collapsed root with a node exactly at the cut line that was
\* expanded, as was one of its descendants.
C4_Witness ==
    /\ call.op = "expandToLevel"
    /\ call.level >= 1
    /\ ~call.pre[call.node]
    /\ \E n \in Subtree(call.node) :
           /\ Depth(n) = call.level
           /\ call.pre[n]
           /\ \E m \in Subtree(n) \ {n} : call.pre[m]

\* C5: expandToLevel(root, 0) collapses everything, the root included: no
\* node of the tree is expanded, collectVisible(root) is [root], and the
\* same call made again changes nothing.
C5_LevelZero ==
    (call.op = "expandToLevel" /\ call.level = 0) =>
        /\ \A n \in Subtree(call.node) : ~expanded[n]
        /\ CollectVisible(call.node, expanded) = <<call.node>>
        /\ ExpandToLevel(call.node, 0, 0, expanded) = expanded

\* Level 0 on a root that was expanded, with an expanded grandchild.
C5_Witness ==
    /\ call.op = "expandToLevel"
    /\ call.level = 0
    /\ call.pre[call.node]
    /\ \E n \in Subtree(call.node) : Depth(n) >= 2 /\ call.pre[n]

\* C6: after expandToLevel(root, k), k >= 1, from any prior flags,
\* collectVisible(root) is the nodes of depth <= k in pre-order; for
\* {"a":1,"b":[2,3]} and k = 1 the visible list is [root, a, b].
C6_VisibleToLevel ==
    /\ (call.op = "expandToLevel" /\ call.level >= 1) =>
           CollectVisible(call.node, expanded)
               = PreOrderOf({n \in Subtree(call.node) : Depth(n) <= call.level})
    /\ (jsonDocs = ExampleDoc /\ call.op = "expandToLevel" /\ call.level = 1) =>
           visible = <<1, 2, 3>>

\* A call after which a node at depth k >= 2 is listed whose parent was
\* collapsed, and a deeper node is not although its parent was expanded.
C6_Witness ==
    /\ call.op = "expandToLevel"
    /\ call.level >= 2
    /\ \E n \in Subtree(call.node) :
           /\ Depth(n) = call.level
           /\ ~call.pre[parent[n]]
           /\ n \in Range(visible)
    /\ \E n \in Subtree(call.node) :
           /\ Depth(n) > call.level
           /\ call.pre[parent[n]]
           /\ n \notin Range(visible)

C8_CollapseAll ==
    /\ call.op = "collapseAll" =>
           \A n \in Subtree(call.node) :
               expanded[n] = (IF n = call.node /\ isDummyRoot[n] /\ call.keepRoot
                                 THEN call.pre[n]
                                 ELSE FALSE)
    /\ (call.op = "expandAll" /\ isDummyRoot[call.node]) =>
           LET r     == call.node
               none  == CollapseAll(r, FALSE, expanded)
               below == CollapseAll(r, TRUE, expanded)
           IN /\ \A n \in Subtree(r) : ~none[n]
              /\ below[r]
              /\ \A n \in Subtree(r) \ {r} : ~below[n]

\* collapseAll(root, true) on a tree of depth 2 or more that was expanded
\* throughout.
C8_Witness ==
    /\ call.op = "collapseAll"
    /\ call.keepRoot
    /\ isDummyRoot[call.node]
    /\ \A n \in Subtree(call.node) : call.pre[n]
    /\ \E n \in Subtree(call.node) : Depth(n) >= 2

\* C9: expandPath(N) sets expanded on the strict ancestors of N, the root
\* included, and leaves every other flag as it was: none is cleared, and the
\* flags of N, of N's siblings and of N's descendants do not change.
C9_ExpandPath ==
    call.op = "expandPath" =>
        \A n \in Nodes :
            expanded[n] = (IF n \in Ancestors(call.node) THEN TRUE ELSE call.pre[n])

\* expandPath on a collapsed node whose parent and root were both collapsed,
\* with an expanded sibling and an expanded child.
C9_Witness ==
    /\ call.op = "expandPath"
    /\ Depth(call.node) >= 2
    /\ \A a \in Ancestors(call.node) : ~call.pre[a]
    /\ ~call.pre[call.node]
    /\ \E s \in Range(children[parent[call.node]]) : s # call.node /\ call.pre[s]
    /\ \E d \in Range(children[call.node]) : call.pre[d]

\* C10: for any node N and any prior flags, after expandPath(N) the node N is
\* in collectVisible(root of N), and so in the visible list.
C10_PathMakesVisible ==
    call.op = "expandPath" =>
        /\ call.node \in Range(CollectVisible(RootOf(call.node), expanded))
        /\ call.node \in Range(visible)

\* expandPath on a node three levels down that was hidden behind a collapsed
\* root and a collapsed grandparent.
C10_Witness ==
    /\ call.op = "expandPath"
    /\ Depth(call.node) >= 3
    /\ ~call.pre[RootOf(call.node)]
    /\ ~call.pre[parent[parent[call.node]]]
    /\ call.pre[parent[call.node]]

\* The nodes searchTree is to report for term: those whose lowercased key
\* holds it, if keys are searched, or whose lowercased value string does, if
\* values are.
Matching(term, searchKeys, searchValues) ==
    {n \in Nodes :
        \/ searchKeys /\ Contains(ToLower(key[n]), term)
        \/ searchValues /\ Contains(ToLower(ValueString(jsonVals[n])), term)}

\* C11: search completeness. For every non-empty lowercase term, a node is
\* in the match list of searchTree iff keys are searched and the term is a
\* substring of its lowercased key, or values are searched and the term is a
\* substring of its lowercased value string; with both flags a match on
\* either is enough.
C11_SearchCompleteness ==
    (call.op = "searchTree" /\ call.term # <<>> /\ ToLower(call.term) = call.term) =>
        Range(out) = Subtree(call.node)
                         \cap Matching(call.term, call.searchKeys, call.searchValues)

\* A search in keys and values that finds one node by its key alone, the key
\* written with an upper-case letter, and another by its value alone, and
\* leaves a node out.
C11_Witness ==
    /\ call.op = "searchTree" /\ call.term # <<>> /\ ToLower(call.term) = call.term
    /\ call.searchKeys /\ call.searchValues
    /\ \E n \in Range(out) :
           /\ n \in Matching(call.term, TRUE, FALSE)
           /\ n \notin Matching(call.term, FALSE, TRUE)
           /\ ~Contains(key[n], call.term)
    /\ \E n \in Range(out) :
           /\ n \in Matching(call.term, FALSE, TRUE)
           /\ n \notin Matching(call.term, TRUE, FALSE)
    /\ \E n \in Subtree(call.node) : n \notin Range(out)

\* C12: the match list lists the matching nodes in depth-first pre-order,
\* each node once even when its key and its value both match: those of the
\* tree searched for searchTree, those of the whole forest, the roots in
\* load order, for the viewer's loop. It is that list whatever the expanded
\* flags are, nodes under collapsed nodes included.
C12_MatchOrder ==
    call.op \in {"searchTree", "viewerSearch"} =>
        out = PreOrderOf((IF call.op = "searchTree" THEN Subtree(call.node) ELSE Nodes)
                         \cap (IF call.term = <<>>
                                   THEN {}
                                   ELSE Matching(call.term, call.searchKeys,
                                                 call.searchValues)))

\* A search with two matches or more, one of them on key and value both and
\* one of them below a collapsed node.
C12_Witness ==
    /\ call.op = "searchTree"
    /\ Len(out) >= 2
    /\ \E n \in Range(out) :
           n \in Matching(call.term, TRUE, FALSE) \cap Matching(call.term, FALSE, TRUE)
    /\ \E n \in Range(out) : ~AncestorsExpanded(n)

\* The match a search command has made the current one.
CurrentMatch == search.matches[search.currentIndex + 1]

\* The index of node in the match list, or other when it is not a match.
MatchIndex(node, other) ==
    IF \E i \in DOMAIN search.matches : search.matches[i] = node
        THEN (CHOOSE i \in DOMAIN search.matches : search.matches[i] = node) - 1
        ELSE other

\* C13: search is case-insensitive in both front ends. The term stored in
\* SearchState.term and handed to searchTree is always lowercase, and the
\* match list of a search for query q is the match list for lowercase(q)
\* (stated for the searches whose reads are determined: the viewer's, and
\* the app's searches in keys only).
C13_CaseInsensitive ==
    /\ search.term = ToLower(search.term)
    /\ (last.cmd = "search" /\ roots # <<>>
            /\ (frontEnd = "viewer" \/ ~search.searchValues)) =>
           search.matches =
               PreOrderOf(IF last.query = <<>>
                              THEN {}
                              ELSE Matching(ToLower(last.query), search.searchKeys,
                                            search.searchValues))

\* C14: in every reachable state of either front end, whatever search,
\* next, previous, clear, open and close commands led to it, a non-empty
\* match list has 0 <= currentIndex < matches.size().
C14_IndexInRange ==
    search.matches # <<>> =>
        (search.currentIndex >= 0 /\ search.currentIndex < Len(search.matches))

\* Find Previous in the app has taken the index from the first match round
\* to the last of three.
C14_Witness ==
    /\ frontEnd = "app"
    /\ last.cmd = "prev"
    /\ last.index = 0
    /\ Len(search.matches) = 3
    /\ search.currentIndex = 2

\* C15: navigation step. After next (previous) with n > 0 matches, if the
\* node focused when the command was given is in matches at position p then
\* currentIndex is (p + 1) mod n ((p - 1) mod n); if it is not a match,
\* currentIndex is (c + 1) mod n ((c - 1) mod n) for the index c before.
C15_NavigationStep ==
    (last.cmd \in {"next", "prev"} /\ search.matches # <<>>) =>
        LET n == Len(search.matches)
            p == MatchIndex(last.focus, last.index)
        IN search.currentIndex =
               IF last.cmd = "next" THEN (p + 1) % n ELSE (p - 1 + n) % n

\* C16 as stated: with n > 0 matches, from any currentIndex and any focused
\* node, next given n times returns currentIndex to what it was, and so
\* does previous given n times.
C16_AsStated ==
    (last.cmd \in {"next", "prev"} /\ search.matches # <<>>
        /\ last.run = Len(search.matches)) =>
        search.currentIndex = last.start

\* C16: with n > 0 matches, next given n times, or previous given n times,
\* returns currentIndex to what it was, unless in the viewer the node
\* selected at the start is a match: then currentIndex ends at the position
\* of that node in matches, which need not be where it started.
C16_Wrap ==
    (last.cmd \in {"next", "prev"} /\ search.matches # <<>>
        /\ last.run = Len(search.matches)) =>
        search.currentIndex =
            IF frontEnd = "viewer"
                THEN MatchIndex(last.startFocus, last.start)
                ELSE last.start

\* In the viewer, previous was given three times with three matches, the
\* index standing at one match and the selection on another.
C16_Witness ==
    /\ frontEnd = "viewer"
    /\ last.cmd = "prev"
    /\ Len(search.matches) = 3
    /\ last.run = 3
    /\ MatchIndex(last.startFocus, last.start) # last.start

\* C17: right after a new search that finds matches, and right after every
\* next or previous, the focused node is matches[currentIndex] and is in the
\* visible list; after a new search currentIndex is 0.
C17_FocusOnCurrentMatch ==
    (last.cmd \in {"search", "next", "prev"} /\ search.matches # <<>>) =>
        /\ Focused = CurrentMatch
        /\ CurrentMatch \in Range(visible)
        /\ last.cmd = "search" => search.currentIndex = 0

\* C18: a search, next or previous command changes the expanded flags only
\* by setting those of strict ancestors of the new current match; the flag
\* of the match itself and of every other node is as before, and with no
\* match no flag changes.
C18_ExpansionFrame ==
    last.cmd \in {"search", "next", "prev"} =>
        \A n \in Nodes :
            expanded[n] # last.pre[n] =>
                /\ search.matches # <<>>
                /\ expanded[n]
                /\ n \in Ancestors(CurrentMatch)

\* C19: in every reachable state of either front end, the value of every
\* node points into a parsed document that still exists.
C19_DocumentOutlivesTree ==
    \A n \in Nodes : RootOf(n) \in liveDocs

\* C20: a clear-search command (c in the viewer, Esc or End Search in the
\* app) and the closing of a document leave the term empty, the match list
\* empty and currentIndex 0, whatever the search state was.
C20_ClearResets ==
    last.cmd \in {"clear", "close"} =>
        (search.term = <<>> /\ search.matches = <<>> /\ search.currentIndex = 0)


\* C21: a search for the empty term finds no match, whatever the documents
\* and whatever is searched (keys, values or both), and leaves the flags and
\* the selected node as they were.
C21_EmptyTerm ==
    (last.cmd = "search" /\ last.query = <<>>) =>
        /\ search.matches = <<>>
        /\ expanded = last.pre
        /\ Focused = last.focus

C21_Witness ==
    /\ last.cmd = "search"
    /\ last.query = <<>>
    /\ search.matches = <<>>
    /\ search.searchValues
    /\ last.focus # 0
    /\ parent[last.focus] # 0
    /\ \E n \in Nodes : ~expanded[n] /\ children[n] # <<>>

C23_AsStated ==
    /\ \A n \in Nodes : expanded[n] <=> n \in Range(roots)
    /\ (call.op = "collectVisible" /\ call.node \in Range(roots)) => out = <<call.node>>

\* C23: a tree as buildTree made it has its root expanded and every other
\* node collapsed, and collectVisible on its root yields the root and then
\* the children of the root in their order, and no node below them.
C23_FreshTree ==
    /\ \A n \in Nodes : expanded[n] <=> n \in Range(roots)
    /\ (call.op = "collectVisible" /\ call.node \in Range(roots)) =>
           out = <<call.node>> \o children[call.node]

C23_Witness ==
    /\ call.op = "collectVisible"
    /\ call.node \in Range(roots)
    /\ Len(children[call.node]) = 2
    /\ \E c \in Range(children[call.node]) : children[c] # <<>>
    /\ Len(out) = 3

\* C24: the children of an object node are in the order the text of the
\* document lists its members, the children of an array node in index order.
C24_KeyOrder ==
    \A n \in Nodes : children[n] = WrittenItems(jsonDocs, jsonVals, n)

\* The children of a node are in the order the parsed json iterates over
\* its members: by name for an object, as written for an array.
TreeInJsonOrder ==
    \A n \in Nodes : children[n] = JsonItems(jsonDocs, jsonVals, n)

\* The JSON values held by value j.
MembersOf(j) == {p \in DOMAIN jsonDocs : jsonDocs[p] = j}

\* C25: the tree mirrors the documents: a node has one child per member of
\* its value and each child's parent is that node; the child of an object is
\* keyed by the member's name, the i-th child of an array by "[i]"; a value
\* that is neither has a node without children; and the roots are the nodes
\* without parent, one for each document loaded.
C25_TreeMirrorsJson ==
    /\ \A n \in Nodes :
           /\ Range(children[n]) = MembersOf(n)
           /\ Len(children[n]) = Cardinality(MembersOf(n))
           /\ \A c \in Range(children[n]) : parent[c] = n
           /\ jsonVals[n].type = "object" =>
                  \A c \in Range(children[n]) : key[c] = jsonVals[c].name
           /\ jsonVals[n].type = "array" =>
                  \A i \in DOMAIN children[n] :
                      key[children[n][i]] = <<"[">> \o DecimalString(i - 1) \o <<"]">>
           /\ jsonVals[n].type \notin {"object", "array"} => children[n] = <<>>
    /\ Range(roots) = {n \in Nodes : parent[n] = 0}
    /\ Range(roots) = {n \in Nodes : isDummyRoot[n]}
    /\ Range(roots) = liveDocs
    /\ Len(roots) = Cardinality(liveDocs)

C25_Witness ==
    /\ Len(roots) = 2
    /\ \E n \in Nodes :
           /\ jsonVals[n].type = "array"
           /\ Len(children[n]) = 2
           /\ key[children[n][2]] = <<"[", "1", "]">>
           /\ \E m \in Range(children[n]) :
                  /\ jsonVals[m].type = "object"
                  /\ children[m] # <<>>
                  /\ key[children[m][1]] = jsonVals[children[m][1]].name

\* C26: no command but opening and closing a file changes the shape of the
\* tree: the roots and every node's parent, child list, key and root flag
\* stay as they are (a node being the value it points to).
C26_ShapeImmutable ==
    [][last'.cmd \notin {"open", "close"} =>
           UNCHANGED <<roots, parent, children, key, isDummyRoot>>]_vars

C26_Witness ==
    /\ last.cmd = "next"
    /\ expanded # last.pre
    /\ search.currentIndex # last.index
    /\ Focused # last.focus

RECURSIVE SumOver(_, _)
\* The sum of f over the members of sequence q.
SumOver(q, f) == IF q = <<>> THEN 0 ELSE f[Head(q)] + SumOver(Tail(q), f)

\* The places of search.matches that hold a node of the tree of root r.
MatchesBelow(r) == {i \in DOMAIN search.matches : search.matches[i] \in Subtree(r)}

\* The label of root r with k matches noted in it.
LabelNoting(r, k) ==
    SubSeq(GetContentLabel(r), 1, Len(GetContentLabel(r)) - 1)
    \o <<",", " ", "glass", " ">> \o DecimalString(k)
    \o <<" ", IF k = 1 THEN "match" ELSE "matches", ")">>

\* C27: the label of a root notes the number of matches that lie in the
\* tree of that root, the label of a root without one is the plain label,
\* and the numbers of all roots add up to the number of matches.
C27_RootMatchCount ==
    /\ \A r \in Range(roots) :
           GetContentLabelWithSearch(r, search) =
               IF MatchesBelow(r) = {}
                   THEN GetContentLabel(r)
                   ELSE LabelNoting(r, Cardinality(MatchesBelow(r)))
    /\ SumOver(roots, [r \in Range(roots) |-> MatchCount(r, search.matches)])
           = Len(search.matches)

C27_Witness ==
    /\ Len(roots) = 2
    /\ Cardinality(MatchesBelow(roots[1])) = 1
    /\ search.matches[1] # roots[1]
    /\ "match" \in Range(GetContentLabelWithSearch(roots[1], search))
    /\ MatchesBelow(roots[2]) = {}
    /\ GetContentLabelWithSearch(roots[2], search) = GetContentLabel(roots[2])

\* C28: a file that does not parse is rejected and no tree is built for it;
\* the trees built before, the search state and the program go on as they
\* were.
C28_ParseFailureContained ==
    /\ (call.op = "load" /\ call.node = 0) =>
           (frontEnd = "main" /\ Built = call.before /\ search = EmptySearch)
    /\ (last.cmd = "open" /\ last.query = BadFile) =>
           (frontEnd = "app" /\ expanded = last.pre /\ Focused = last.focus)

\* C29: next and previous, given when there is no match, leave the search
\* state, the flags and the selected node as they are.
C29_NoMatchNoMove ==
    (last.cmd \in {"next", "prev"} /\ last.was.matches = <<>>) =>
        /\ search = last.was
        /\ expanded = last.pre
        /\ Focused = last.focus

C29_Witness ==
    /\ last.cmd = "prev"
    /\ last.was.matches = <<>>
    /\ last.was.term # <<>>
    /\ last.focus # 0
    /\ parent[last.focus] # 0
    /\ search = last.was

\* C30: in every child list that is not empty exactly one child is marked
\* as the last, and it is the last of the list.
C30_OneLastSibling ==
    \A n \in Nodes :
        children[n] # <<>> =>
            {c \in Range(children[n]) : isLastChild[c]} = {children[n][Len(children[n])]}

C30_Witness ==
    \E n \in Nodes :
        /\ Len(children[n]) = 3
        /\ isLastChild[children[n][3]]
        /\ ~isLastChild[children[n][1]]
        /\ \E m \in Nodes : Len(children[m]) = 1 /\ isLastChild[children[m][1]]
\* C31: round-trip reconstruction. After a copy, in either front end, the
\* json value reconstructed from the selected node N is the JSON value at
\* N's position in the parsed document, whatever the expansion flags and the
\* search state are.
C31_RoundTrip ==
    (last.cmd = "copy" /\ roots # <<>>) => out = Json(jsonDocs, jsonVals, last.focus)

\* C32, as stated: after the key - of the viewer every root is expanded,
\* every strict ancestor of the node that was selected is expanded, every
\* other node is collapsed, and the selection is on the node it was on.
C32_AsStated ==
    last.cmd = "minus" =>
        /\ \A n \in Nodes :
               expanded[n] <=> (n \in Range(roots) \/ n \in Ancestors(last.focus))
        /\ Focused = last.focus

\* C32: after the key - of the viewer every strict ancestor of the node that
\* was selected is expanded, every other root has the flag it had before the
\* key, every other node is collapsed, and the selection is on the node it
\* was on.
C32_CollapseAllKey ==
    last.cmd = "minus" =>
        /\ \A n \in Nodes :
               expanded[n] <=> \/ n \in Ancestors(last.focus)
                               \/ n \in Range(roots) /\ last.pre[n]
        /\ Focused = last.focus

C32_Witness ==
    /\ last.cmd = "minus"
    /\ parent[last.focus] # 0
    /\ expanded[parent[last.focus]]
    /\ Focused = last.focus
    /\ \E r \in Range(roots) : ~last.pre[r] /\ ~expanded[r]

\* C33: after a level key of the viewer the selection is on the node it was
\* on when that node is still in the visible list, and on line 0 when it is
\* not; either way the selected line is a line of the visible list.
C33_LevelResync ==
    last.cmd = "level" =>
        /\ IF \E i \in DOMAIN visible : visible[i] = last.focus
               THEN Focused = last.focus
               ELSE selected = 0
        /\ selected < Len(visible)

C33_Witness ==
    /\ last.cmd = "level"
    /\ \A i \in DOMAIN visible : visible[i] # last.focus
    /\ selected = 0
    /\ Len(visible) > 1
    /\ Depth(last.focus) = 2

\* C34: the key + of the viewer keeps the selection on the same node: the
\* node on the selected line after it is the node that was selected before.
C34_ExpandAllKeepsNode ==
    last.cmd = "plus" => Focused = last.focus

\* C35: whenever the viewer waits for a key or has just handled one, the
\* visible list is not empty and 0 <= selected < visible.size().
C35_SelectionInRange ==
    frontEnd = "viewer" =>
        /\ visible # <<>>
        /\ selected >= 0
        /\ selected < Len(visible)

C35_Witness ==
    /\ frontEnd = "viewer"
    /\ last.cmd = "left"
    /\ last.pre[last.focus]
    /\ ~expanded[last.focus]
    /\ selected > 0
    /\ selected = Len(visible) - 1

\* C36: Left on a node that is expanded and has children collapses that node
\* only and keeps it selected; Left on any other node that is not a root
\* selects its parent and changes no flag; Left on a root that is collapsed
\* or has no children changes nothing; Right expands the selected node when
\* it has children, changes no other flag and never moves the selection.
C36_LeftRight ==
    /\ last.cmd = "left" =>
           LET n == last.focus
           IN IF last.pre[n] /\ children[n] # <<>>
                  THEN expanded = [last.pre EXCEPT ![n] = FALSE] /\ Focused = n
                  ELSE /\ expanded = last.pre
                       /\ Focused = IF parent[n] # 0 THEN parent[n] ELSE n
    /\ last.cmd = "right" =>
           LET n == last.focus
           IN /\ expanded = IF children[n] # <<>>
                                THEN [last.pre EXCEPT ![n] = TRUE]
                                ELSE last.pre
              /\ Focused = n

C36_Witness ==
    /\ last.cmd = "right"
    /\ last.pre[last.focus]
    /\ children[last.focus] # <<>>
    /\ expanded[last.focus]
    /\ Focused = last.focus
    /\ Len(visible) > selected + 1

\* C37: next followed at once by previous brings the focus back: when a
\* match had the focus before the two commands, that match has the focus
\* after them, in either front end.
C37_NextThenPrevious ==
    (/\ last.cmd = "prev"
     /\ last.after = "next"
     /\ \E i \in DOMAIN search.matches : search.matches[i] = last.origin) =>
        Focused = last.origin

\* C38: the searchTree of json-view.cpp returns what the searchTree of the
\* core returns: after a call of the core's function on a root, a term and a
\* pair of flags, the viewer's function on the same arguments yields the
\* same match list.
C38_SameMatches ==
    call.op = "searchTree" =>
        out = ViewerSearchTree(call.node, call.term, call.searchKeys, call.searchValues)

C40_NoStaleReference ==
    frontEnd = "app" =>
        /\ \A i \in DOMAIN search.matches : search.matches[i] \in Nodes
        /\ DOMAIN nodeMap \subseteq Nodes

C40_Witness ==
    /\ frontEnd = "app"
    /\ last.cmd = "open"
    /\ last.focus # 0
    /\ roots # <<>>
    /\ DOMAIN last.pre # Nodes
    /\ search.matches = <<>>
    /\ DOMAIN nodeMap = Nodes

====
